---- MODULE Spec2Model ----
(***************************************************************************)
(* Step channel, step worker loop and workflow coordinator of the WeChat   *)
(* removal control panel.                                                  *)
(*                                                                         *)
(*   controller : src/control_panel.py   (class ControlPanel)              *)
(*   worker     : src/workflow/run_wechat_removal.py (class StepModeRunner)*)
(*   snapshot   : src/panel_state.py                                       *)
(*                                                                         *)
(* The controller's Tk thread runs one handler at a time (button commands  *)
(* and root.after callbacks); every call of _poll_agent_result starts one  *)
(* poller thread; the worker is a separate process.  The three processes   *)
(* meet only in the three channel files, so every file operation of the    *)
(* worker and of a poller is a step of its own.                            *)
(***************************************************************************)
EXTENDS Integers, Sequences, FiniteSets, TLC

(***************************************************************************)
(* Bounds of the exploration.                                              *)
(***************************************************************************)
\* step requests the operator issues in one behaviour of the channel
MaxReq == 2
\* step requests the operator issues in one behaviour of the whole workflow
MaxWorkflowReq == 1
\* step requests the operator issues in one behaviour of the read stage
MaxReadReq == 2
MaxRestartReq == 2
MaxThreads == 3
MaxFilterReq == 0
MaxReports == 2
MaxSpawns == 2
MaxWaitIter == 2
MaxPrinted == 2
MaxServerReq == 0
MaxCursorReq == 1
\* step requests the operator issues in one behaviour driven by hand
MaxManualReq == 0
\* group advances between two operator resets
MaxAdvances == 2

(***************************************************************************)
(* Optional values and files: <<>> is None / no file, <<x>> holds x.       *)
(***************************************************************************)
None == <<>>
Some(x) == <<x>>
IsSome(o) == Len(o) > 0
Get(o) == o[1]

(***************************************************************************)
(* Entity model (src/modules/task_types.py).                               *)
(***************************************************************************)
GroupThread(name, thread_id, unread, is_group) ==
    [name |-> name, thread_id |-> thread_id, unread |-> unread, is_group |-> is_group]

\* pathlib.Path: Path("") and Path() are both the path "."
Path(s) == [path |-> IF s = "" THEN "." ELSE s]
PathStr(p) == p.path

Suspect(sender_id, sender_name, avatar_path, evidence_text, thread_id) ==
    [sender_id |-> sender_id, sender_name |-> sender_name, avatar_path |-> avatar_path,
     evidence_text |-> evidence_text, thread_id |-> thread_id]

RemovalPlan(suspects, confirmed, note) ==
    [suspects |-> suspects, confirmed |-> confirmed, note |-> note]

PanelState0 ==
    [threads |-> <<>>, unread_groups |-> <<>>, current_thread_index |-> 0,
     current_group_suspects |-> <<>>, current_group_plan |-> None,
     all_suspects |-> <<>>, all_plans |-> <<>>,
     suspects |-> <<>>, plan |-> None,
     step_logs |-> <<>>]

(***************************************************************************)
(* Sequence helpers.                                                       *)
(***************************************************************************)
SelectSeqMap(s, F(_)) == [i \in 1..Len(s) |-> F(s[i])]

RECURSIVE Flatten(_)
Flatten(ss) == IF ss = <<>> THEN <<>> ELSE Head(ss) \o Flatten(Tail(ss))

IsPrefix(s, t) == Len(s) <= Len(t) /\ SubSeq(t, 1, Len(s)) = s

(***************************************************************************)
(* Texts.  A text is what the agent answered and what step_logs keeps.     *)
(*   kind "threads"  : a JSON object with a "threads" array                *)
(*   kind "suspects" : a JSON object with a "suspects" array               *)
(*   kind "shots"    : a JSON array of paths (json.dumps(screenshots))     *)
(*   kind "plain"    : text that is not JSON (an error message, a note)    *)
(***************************************************************************)
Text(kind, threads, suspects, shots, plain, num) ==
    [kind |-> kind, threads |-> threads, suspects |-> suspects, shots |-> shots,
     plain |-> plain, num |-> num]
TextThreads(items) == Text("threads", items, <<>>, <<>>, "", 0)
TextSuspects(items) == Text("suspects", <<>>, items, <<>>, "", 0)
TextShots(items) == Text("shots", <<>>, <<>>, items, "", 0)
TextPlain(s) == Text("plain", <<>>, <<>>, <<>>, s, 0)
\* f"Processed {n} group(s)"
TextProcessed(n) == Text("plain", <<>>, <<>>, <<>>, "Processed group(s)", n)

\* json.loads(text) succeeds, and yields a dict
IsJsonObject(t) == t.kind \in {"threads", "suspects"}

\* step_logs is a dict: a function from its keys to texts.  Keys are the
\* f-strings of the code, kept as tuples of their parts.
ReadKey(tid) == <<"read", tid>>
ShotsKey(tid) == <<"read", tid, "screenshots">>
RemovalKey(tid) == <<"removal", tid>>
ClassifyKey == <<"classify">>
LogPut(logs, k, v) == [x \in (DOMAIN logs) \cup {k} |-> IF x = k THEN v ELSE logs[x]]
LogHas(logs, k) == k \in DOMAIN logs

(***************************************************************************)
(* Pure functions of the modules.                                          *)
(***************************************************************************)
\* a failed call (an exception) or its value
Raised == [ok |-> FALSE, val |-> <<>>]
Returned(v) == [ok |-> TRUE, val |-> v]

\* modules/group_classifier.py: parse_classification
ParseThreadItem(item) == GroupThread(item.name, item.thread_id, item.unread, item.is_group)
parse_classification(text_output) ==
    IF ~IsJsonObject(text_output) THEN Raised
    ELSE Returned(SelectSeqMap(text_output.threads, ParseThreadItem))

\* modules/unread_scanner.py: filter_unread_groups
\* a filter that keeps every group
IsGroup(thread) == thread.is_group
IsUnreadGroup(thread) == thread.is_group /\ thread.unread
filter_unread_groups(threads) == SelectSeq(threads, IsUnreadGroup)

\* modules/suspicious_detector.py: extract_suspects
extract_suspects(thread, text_output, screenshot_paths) ==
    IF ~IsJsonObject(text_output) THEN Raised
    ELSE LET avatar_path == IF screenshot_paths # <<>>
                            THEN screenshot_paths[Len(screenshot_paths)]
                            ELSE Path("")
             Bind(item) == Suspect(item.sender_id, item.sender_name, avatar_path,
                                   item.evidence_text, thread.thread_id)
         IN Returned(SelectSeqMap(text_output.suspects, Bind))

\* modules/removal_precheck.py: build_removal_plan(suspects) with note=None
build_removal_plan(suspects) == RemovalPlan(suspects, FALSE, None)

(***************************************************************************)
(* Snapshot (src/panel_state.py).  The serialized form keeps a path as its *)
(* string and a missing plan as null.                                      *)
(***************************************************************************)
_serialize_suspect(s) ==
    [sender_id |-> s.sender_id, sender_name |-> s.sender_name,
     avatar_path |-> PathStr(s.avatar_path), evidence_text |-> s.evidence_text,
     thread_id |-> s.thread_id]

_serialize_plan(plan) ==
    [suspects |-> SelectSeqMap(plan.suspects, _serialize_suspect),
     confirmed |-> plan.confirmed, note |-> plan.note]

\* a serialization that takes a plan without suspects for no plan
_serialize_nonempty_plan(p) ==
    IF IsSome(p) /\ Get(p).suspects # <<>> THEN Some(_serialize_plan(Get(p))) ELSE None

_serialize_opt_plan(p) == IF IsSome(p) THEN Some(_serialize_plan(Get(p))) ELSE None

_serialize_state(st) ==
    [threads |-> st.threads,
     unread_groups |-> st.unread_groups,
     current_thread_index |-> st.current_thread_index,
     current_group_suspects |-> SelectSeqMap(st.current_group_suspects, _serialize_suspect),
     current_group_plan |-> _serialize_opt_plan(st.current_group_plan),
     all_suspects |-> SelectSeqMap(st.all_suspects, _serialize_suspect),
     all_plans |-> SelectSeqMap(st.all_plans, _serialize_plan),
     suspects |-> SelectSeqMap(st.suspects, _serialize_suspect),
     plan |-> _serialize_opt_plan(st.plan),
     step_logs |-> st.step_logs]

_deserialize_suspect(s) ==
    Suspect(s.sender_id, s.sender_name, Path(s.avatar_path), s.evidence_text, s.thread_id)

_deserialize_plan(plan_data) ==
    RemovalPlan(SelectSeqMap(plan_data.suspects, _deserialize_suspect),
                plan_data.confirmed, plan_data.note)

_deserialize_opt_plan(d) == IF IsSome(d) THEN Some(_deserialize_plan(Get(d))) ELSE None

_deserialize_state(data) ==
    [threads |-> SelectSeqMap(data.threads, ParseThreadItem),
     unread_groups |-> SelectSeqMap(data.unread_groups, ParseThreadItem),
     current_thread_index |-> data.current_thread_index,
     current_group_suspects |-> SelectSeqMap(data.current_group_suspects, _deserialize_suspect),
     current_group_plan |-> _deserialize_opt_plan(data.current_group_plan),
     all_suspects |-> SelectSeqMap(data.all_suspects, _deserialize_suspect),
     all_plans |-> SelectSeqMap(data.all_plans, _deserialize_plan),
     suspects |-> SelectSeqMap(data.suspects, _deserialize_suspect),
     plan |-> _deserialize_opt_plan(data.plan),
     step_logs |-> data.step_logs]

\* load_state: a missing file is a fresh PanelState
load_state(file) == IF IsSome(file) THEN _deserialize_state(Get(file)) ELSE PanelState0

(***************************************************************************)
(* What the agent and the operator can supply.                             *)
(***************************************************************************)
ThreadItem(id, unread, is_group) ==
    [name |-> id, thread_id |-> id, unread |-> unread, is_group |-> is_group]
SuspectItem(id, name) == [sender_id |-> id, sender_name |-> name, evidence_text |-> ""]

\* the agent's answers to a classify step
ClassifyTexts ==
    {TextThreads(<<ThreadItem("g1", TRUE, TRUE), ThreadItem("g2", TRUE, TRUE)>>)}
\* the agent's answers to a read_messages step
ReadTexts == {TextSuspects(<<>>), TextSuspects(<<SuspectItem("a", "A")>>), TextPlain("")}
\* the agent's answers to a remove step
RemoveTexts == {TextPlain("done")}
\* the screenshots of an agent run
ShotLists == {<<"shot1">>}

AgentTexts(step) ==
    CASE step = "classify" -> ClassifyTexts
      [] step = "read_messages" -> ReadTexts
      [] OTHER -> RemoveTexts

(***************************************************************************)
(* Channel files.  A request file holds the JSON the controller wrote, or  *)
(* nothing yet between open(mode "w") and the write (Path.write_text).     *)
(* id is the number of the request a content belongs to; the files of the  *)
(* program do not carry it.                                                *)
(***************************************************************************)
NoParams == [thread_id |-> "", thread_name |-> "", suspects |-> <<>>]
Request(step, params, id) == [json |-> TRUE, step |-> step, params |-> params, id |-> id]
Truncated(id) == [json |-> FALSE, step |-> "", params |-> NoParams, id |-> id]
Status(val, id) == [val |-> val, id |-> id]
\* the result file: json.dumps({"text", "screenshots"}) or an error message
Result(text, screenshots, id) ==
    [json |-> TRUE, text |-> text, screenshots |-> screenshots, id |-> id]
ErrorText(id) ==
    [json |-> FALSE, text |-> TextPlain("error"), screenshots |-> <<>>, id |-> id]
NoResult == [json |-> FALSE, text |-> TextPlain(""), screenshots |-> <<>>, id |-> 0]

VARIABLES
    state,              \* ControlPanel.state, the PanelState in memory
    snapshot,           \* artifacts/panel_state.json
    workflow_process,   \* ControlPanel.workflow_process: "None", or the handle of an "alive" or "exited" process
    request_file,       \* artifacts/.step_request
    status_file,        \* artifacts/.step_status
    result_file,        \* artifacts/.step_result
    worker,             \* StepModeRunner.run_loop: where it is, and the request it read
    pollers,            \* the poller threads of _poll_agent_result, by request number
    after_queue,        \* callbacks given to root.after(0, ...) and not yet run
    ui,                 \* the Tk thread: idle, inside write_text of a request, or between
                        \* the two _save_state calls of _on_removal_result
    req_limit,          \* the number of step requests the operator issues at most
    restart_at,         \* history: requests issued when the controller was last started
    nreq,               \* history: requests issued so far
    asked,              \* history: the operator's answer in the _run_removal that is writing its request
    dispatched,         \* history: calls of process_request, by request number
    status_hist,        \* history: statuses the worker wrote, by request number
    nadv,               \* history: advances since the last reset
    adv_sum,            \* history: sum of len(current_group_suspects) over those advances
    pass_reports,       \* history: completion reports shown since the last Filter, if there was one
    server_process,     \* ControlPanel.server_process: 0 for None, or the number of the process it is the handle of
    server_status,      \* the text of the server_status label
    workflow_pid,       \* the number of the process workflow_process is the handle of, 0 for None
    workflow_status,    \* the text of the workflow_status label
    procs,              \* the processes spawned so far, by number
    monitors,           \* the monitor_server / monitor_workflow threads, by the number of the process they were started with
    tk_queue,           \* root.after(0, ...) label updates of the monitor threads, not yet run
    other_server        \* whether a process the panel did not start listens on port 8000

chan == <<request_file, status_file, result_file>>
hist == <<req_limit, restart_at, nreq, asked, dispatched, status_hist, nadv, adv_sum, pass_reports>>
sup == <<server_process, server_status, workflow_pid, workflow_status, procs, monitors,
         tk_queue, other_server>>
vars == <<state, snapshot, workflow_process, request_file, status_file, result_file,
          worker, pollers, after_queue, ui, req_limit, restart_at, nreq, asked, dispatched,
          status_hist, nadv, adv_sum, pass_reports, server_process, server_status,
          workflow_pid, workflow_status, procs, monitors, tk_queue, other_server>>

ReqIds == 1..MaxReq
UiIdle == [pc |-> "idle", req |-> Truncated(0), cb |-> ""]
WorkerIdle == [pc |-> "poll", req |-> Truncated(0)]

InitWith(limit) ==
    /\ req_limit = limit
    /\ restart_at = 0
    /\ state = load_state(None)
    /\ snapshot = None
    /\ workflow_process = "None"
    /\ request_file = None
    /\ status_file = None
    /\ result_file = None
    /\ worker = WorkerIdle
    /\ pollers = <<>>
    /\ after_queue = <<>>
    /\ ui = UiIdle
    /\ nreq = 0
    /\ asked = ""
    /\ dispatched = [i \in ReqIds |-> 0]
    /\ status_hist = [i \in ReqIds |-> <<>>]
    /\ nadv = 0
    /\ adv_sum = 0
    /\ pass_reports = None
    /\ server_process = 0
    /\ server_status = "Stopped"
    /\ workflow_pid = 0
    /\ workflow_status = "Stopped"
    /\ procs = <<>>
    /\ monitors = <<>>
    /\ tk_queue = <<>>
    /\ other_server = FALSE

(***************************************************************************)
(* Controller: persistence and the advance.                                *)
(***************************************************************************)
\* ControlPanel._save_state: the whole state is rewritten
save_state(st) == snapshot' = Some(_serialize_state(st))

CurrentThread(st) == st.unread_groups[st.current_thread_index + 1]
CursorInRange(st) == st.current_thread_index < Len(st.unread_groups)

PlanSuspects(p) == p.suspects

\* an advance that assigns the group's suspects to all_suspects instead of
\* extending it
AdvanceReplacing(st) ==
    LET new_suspects == st.current_group_suspects
        new_plans == IF IsSome(st.current_group_plan)
                     THEN Append(st.all_plans, Get(st.current_group_plan))
                     ELSE st.all_plans
        legacy == IF new_plans # <<>>
                  THEN Some(RemovalPlan(Flatten(SelectSeqMap(new_plans, PlanSuspects)), TRUE,
                                        Some(TextProcessed(Len(new_plans)))))
                  ELSE st.plan
    IN [st EXCEPT !.all_suspects = new_suspects,
                  !.all_plans = new_plans,
                  !.suspects = new_suspects,
                  !.plan = legacy,
                  !.current_thread_index = st.current_thread_index + 1,
                  !.current_group_suspects = <<>>,
                  !.current_group_plan = None]

\* an advance that folds and moves the cursor but keeps the group's suspects
\* and plan in place
AdvanceWithoutClear(st) ==
    LET new_suspects == st.all_suspects \o st.current_group_suspects
        new_plans == IF IsSome(st.current_group_plan)
                     THEN Append(st.all_plans, Get(st.current_group_plan))
                     ELSE st.all_plans
        legacy == IF new_plans # <<>>
                  THEN Some(RemovalPlan(Flatten(SelectSeqMap(new_plans, PlanSuspects)), TRUE,
                                        Some(TextProcessed(Len(new_plans)))))
                  ELSE st.plan
    IN [st EXCEPT !.all_suspects = new_suspects,
                  !.all_plans = new_plans,
                  !.suspects = new_suspects,
                  !.plan = legacy,
                  !.current_thread_index = st.current_thread_index + 1]

\* an advance whose legacy plan is the plan of the group just finished
AdvanceLegacyLastPlan(st) ==
    LET new_suspects == st.all_suspects \o st.current_group_suspects
        new_plans == IF IsSome(st.current_group_plan)
                     THEN Append(st.all_plans, Get(st.current_group_plan))
                     ELSE st.all_plans
        legacy == IF IsSome(st.current_group_plan)
                  THEN Some(RemovalPlan(Get(st.current_group_plan).suspects, TRUE,
                                        Some(TextProcessed(Len(new_plans)))))
                  ELSE st.plan
    IN [st EXCEPT !.all_suspects = new_suspects,
                  !.all_plans = new_plans,
                  !.suspects = new_suspects,
                  !.plan = legacy,
                  !.current_thread_index = st.current_thread_index + 1,
                  !.current_group_suspects = <<>>,
                  !.current_group_plan = None]

\* ControlPanel._advance_to_next_group, up to its _save_state
AdvanceToNextGroup(st) ==
    LET new_suspects == st.all_suspects \o st.current_group_suspects
        new_plans == IF IsSome(st.current_group_plan)
                     THEN Append(st.all_plans, Get(st.current_group_plan))
                     ELSE st.all_plans
        legacy == IF new_plans # <<>>
                  THEN Some(RemovalPlan(Flatten(SelectSeqMap(new_plans, PlanSuspects)), TRUE,
                                        Some(TextProcessed(Len(new_plans)))))
                  ELSE st.plan
    IN [st EXCEPT !.all_suspects = new_suspects,
                  !.all_plans = new_plans,
                  !.suspects = new_suspects,
                  !.plan = legacy,
                  !.current_thread_index = st.current_thread_index + 1,
                  !.current_group_suspects = <<>>,
                  !.current_group_plan = None]

\* one more "Complete" / "Workflow Complete" box in the pass a Filter began
Reported(reports) == IF IsSome(reports) THEN Some(Get(reports) + 1) ELSE None

\* the handler runs _advance_to_next_group on st and persists the outcome; with
\* no group remaining it shows "Workflow Complete"
Advance(st) ==
    /\ nadv < MaxAdvances
    /\ state' = AdvanceToNextGroup(st)
    /\ save_state(state')
    /\ nadv' = nadv + 1
    /\ adv_sum' = adv_sum + Len(st.current_group_suspects)
    /\ pass_reports' = IF CursorInRange(state') THEN pass_reports ELSE Reported(pass_reports)

(***************************************************************************)
(* Controller: the step channel.                                           *)
(***************************************************************************)
UiReady == ui.pc = "idle"
\* a poller thread; `thread`, `idx` and `nadv` are history: the group at the
\* cursor when the handler issued the request ("" when there was none), the
\* cursor and the number of advances at that moment
Poller(cb) ==
    [pc |-> "poll", cb |-> cb, payload |-> NoResult, end |-> "", thread |-> "", idx |-> 0,
     nadv |-> 0]
Callback(kind, cb, payload, pid) == [kind |-> kind, cb |-> cb, payload |-> payload, pid |-> pid]

\* ControlPanel._request_agent_step up to the open() of write_text, which
\* creates or empties the request file
RequestAgentStep(step, params, cb) ==
    /\ nreq < req_limit
    /\ nreq' = nreq + 1
    /\ workflow_process' = IF workflow_process = "exited" THEN "None" ELSE workflow_process
    /\ request_file' = Some(Truncated(nreq + 1))
    /\ ui' = [pc |-> "write", req |-> Request(step, params, nreq + 1), cb |-> cb]

\* the rest of write_text (the JSON reaches the file the controller opened,
\* which the worker may have unlinked meanwhile), then _poll_agent_result:
\* the poller thread is started
FinishRequest ==
    /\ ui.pc = "write"
    /\ request_file' = IF IsSome(request_file) THEN Some(ui.req) ELSE None
    /\ pollers' = [i \in (DOMAIN pollers) \cup {ui.req.id} |->
                     IF i = ui.req.id
                     THEN [Poller(ui.cb) EXCEPT !.thread =
                              IF CursorInRange(state) THEN CurrentThread(state).thread_id
                              ELSE "",
                                            !.idx = state.current_thread_index,
                                            !.nadv = nadv]
                     ELSE pollers[i]]
    /\ ui' = UiIdle
    /\ asked' = ""
    /\ UNCHANGED <<state, snapshot, workflow_process, status_file, result_file, worker,
                   after_queue, sup, req_limit, restart_at, nreq, dispatched, status_hist, nadv, adv_sum,
                   pass_reports>>

(***************************************************************************)
(* Controller: the workflow steps.                                         *)
(***************************************************************************)
\* ControlPanel._run_classify
RunClassify ==
    /\ UiReady
    /\ workflow_process # "None"
    /\ RequestAgentStep("classify", NoParams, "classify")
    /\ UNCHANGED <<state, snapshot, status_file, result_file, worker, pollers, after_queue,
                   sup, req_limit, restart_at, asked, dispatched, status_hist, nadv, adv_sum,
                   pass_reports>>

NextCallback(kind, cb) ==
    /\ UiReady
    /\ after_queue # <<>>
    /\ Head(after_queue).kind = kind
    /\ kind = "result" => Head(after_queue).cb = cb

\* ControlPanel._on_classify_result
OnClassifyResult ==
    /\ NextCallback("result", "classify")
    /\ LET text_output == Head(after_queue).payload.text
           parsed == parse_classification(text_output)
       IN IF parsed.ok
          THEN /\ state' = [state EXCEPT !.threads = parsed.val,
                                         !.step_logs = LogPut(@, ClassifyKey, text_output)]
               /\ save_state(state')
          ELSE UNCHANGED <<state, snapshot>>
    /\ after_queue' = Tail(after_queue)
    /\ UNCHANGED <<workflow_process, chan, worker, pollers, ui, hist, sup>>

\* ControlPanel._on_agent_error
OnAgentError ==
    /\ NextCallback("error", "")
    /\ after_queue' = Tail(after_queue)
    /\ UNCHANGED <<state, snapshot, workflow_process, chan, worker, pollers, ui, hist, sup>>

\* ControlPanel._run_filter
RunFilter ==
    /\ UiReady
    /\ state.threads # <<>>
    /\ state' = [state EXCEPT !.unread_groups = filter_unread_groups(state.threads),
                              !.current_thread_index = 0]
    /\ save_state(state')
    /\ pass_reports' = Some(0)
    /\ UNCHANGED <<workflow_process, chan, worker, pollers, after_queue, ui,
                   sup, req_limit, restart_at, nreq, asked, dispatched, status_hist, nadv, adv_sum>>

\* a reset of the per-group state that forgets the plan
ClearGroupSuspectsOnly(st) == [st EXCEPT !.current_group_suspects = <<>>]

\* _run_read_messages: "Reset per-group state when starting to read a new group"
ClearGroup(st) == [st EXCEPT !.current_group_suspects = <<>>, !.current_group_plan = None]

\* ControlPanel._run_read_messages
RunReadMessages ==
    /\ UiReady
    /\ workflow_process # "None"
    /\ state.unread_groups # <<>>
    /\ CursorInRange(state)
    /\ state' = ClearGroup(state)
    /\ save_state(state')
    /\ RequestAgentStep("read_messages",
                        [NoParams EXCEPT !.thread_id = CurrentThread(state).thread_id,
                                         !.thread_name = CurrentThread(state).name],
                        "read")
    /\ UNCHANGED <<status_file, result_file, worker, pollers, after_queue,
                   sup, req_limit, restart_at, asked, dispatched, status_hist, nadv, adv_sum,
                   pass_reports>>

\* an _on_read_result that starts the pass over
OnReadResultResetting ==
    /\ NextCallback("result", "read")
    /\ LET result == Head(after_queue).payload
       IN IF CursorInRange(state)
          THEN /\ state' = [state EXCEPT !.step_logs =
                               LogPut(LogPut(@, ReadKey(CurrentThread(state).thread_id), result.text),
                                      ShotsKey(CurrentThread(state).thread_id),
                                      TextShots(result.screenshots)),
                                         !.current_thread_index = 0]
               /\ save_state(state')
          ELSE UNCHANGED <<state, snapshot>>
    /\ after_queue' = Tail(after_queue)
    /\ UNCHANGED <<workflow_process, chan, worker, pollers, ui, hist, sup>>

\* ControlPanel._on_read_result; unread_groups[idx] raises IndexError when the
\* cursor is past the list, and the callback then changes nothing
OnReadResult ==
    /\ NextCallback("result", "read")
    /\ LET result == Head(after_queue).payload
       IN IF CursorInRange(state)
          THEN /\ state' = [state EXCEPT !.step_logs =
                               LogPut(LogPut(@, ReadKey(CurrentThread(state).thread_id), result.text),
                                      ShotsKey(CurrentThread(state).thread_id),
                                      TextShots(result.screenshots))]
               /\ save_state(state')
          ELSE UNCHANGED <<state, snapshot>>
    /\ after_queue' = Tail(after_queue)
    /\ UNCHANGED <<workflow_process, chan, worker, pollers, ui, hist, sup>>

\* ControlPanel._run_extract: the branch it takes.  step_logs.get(text_key, "{}")
\* yields "{}" only for a missing key here: no stored text is "{}"
ExtractOutcome(st) ==
    IF st.unread_groups = <<>> THEN "missing_data"
    ELSE IF ~CursorInRange(st) THEN "complete"
    ELSE IF ~LogHas(st.step_logs, ReadKey(CurrentThread(st).thread_id)) THEN "missing_data"
    ELSE IF ~IsJsonObject(st.step_logs[ReadKey(CurrentThread(st).thread_id)])
    THEN "parse_error"
    ELSE "extracted"

\* ControlPanel._run_extract, when it gets as far as extract_suspects
RunExtract ==
    /\ UiReady
    /\ state.unread_groups # <<>>
    /\ CursorInRange(state)
    /\ LET thread == CurrentThread(state)
           text_key == ReadKey(thread.thread_id)
           screenshots_key == ShotsKey(thread.thread_id)
       IN /\ LogHas(state.step_logs, text_key)
          /\ LET text_output == state.step_logs[text_key]
                 screenshot_paths ==
                     IF LogHas(state.step_logs, screenshots_key)
                     THEN SelectSeqMap(state.step_logs[screenshots_key].shots, Path)
                     ELSE <<>>
                 suspects == extract_suspects(thread, text_output, screenshot_paths)
             IN /\ suspects.ok
                /\ state' = [state EXCEPT !.current_group_suspects = suspects.val]
                /\ save_state(state')
    /\ UNCHANGED <<workflow_process, chan, worker, pollers, after_queue, ui, hist, sup>>

\* The states the workflow stages alone lead to from st, for the group at the
\* cursor, with the agent answering every read_messages step with `text`:
\* _run_read_messages with _on_read_result, _run_extract and _run_build_plan
\* applied in any order and number; and whether _run_removal gets past its
\* "Run 'Build Plan' first" check in one of them (it then advances: by the
\* skip of an empty plan, by the operator's No, or by the result of the step)
StagesReachAdvance(st, text) ==
    LET tid == CurrentThread(st).thread_id
        AfterRead(s) ==
            [ClearGroup(s) EXCEPT !.step_logs =
                LogPut(LogPut(@, ReadKey(tid), text), ShotsKey(tid), TextShots(<<>>))]
        AfterExtract(s) ==
            IF ExtractOutcome(s) = "extracted"
            THEN [s EXCEPT !.current_group_suspects =
                     extract_suspects(CurrentThread(s), s.step_logs[ReadKey(tid)], <<>>).val]
            ELSE s
        AfterPlan(s) ==
            IF s.current_group_suspects # <<>>
            THEN [s EXCEPT !.current_group_plan =
                     Some(build_removal_plan(s.current_group_suspects))]
            ELSE s
        RECURSIVE Closure(_)
        Closure(S) ==
            LET T == S \cup {AfterRead(s) : s \in S} \cup {AfterExtract(s) : s \in S}
                       \cup {AfterPlan(s) : s \in S}
            IN IF T = S THEN S ELSE Closure(T)
    IN \E s \in Closure({st}) : IsSome(s.current_group_plan)

\* ControlPanel._run_build_plan
RunBuildPlan ==
    /\ UiReady
    /\ CursorInRange(state)
    /\ state.current_group_suspects # <<>>
    /\ state' = [state EXCEPT !.current_group_plan =
                                 Some(build_removal_plan(state.current_group_suspects))]
    /\ save_state(state')
    /\ UNCHANGED <<workflow_process, chan, worker, pollers, after_queue, ui, hist, sup>>

RemovalReady ==
    /\ UiReady
    /\ workflow_process # "None"
    /\ CursorInRange(state)
    /\ IsSome(state.current_group_plan)

Triple(s) == [sender_id |-> s.sender_id, sender_name |-> s.sender_name, thread_id |-> s.thread_id]

\* ControlPanel._run_removal: the plan has no suspects
RunRemovalEmpty ==
    /\ RemovalReady
    /\ Get(state.current_group_plan).suspects = <<>>
    /\ Advance(state)
    /\ UNCHANGED <<workflow_process, chan, worker, pollers, after_queue, ui,
                   req_limit, restart_at, nreq, asked, dispatched, status_hist, sup>>

\* a _run_removal that does not look at the operator's answer
DeclinesNever(confirm) == FALSE

\* `if not confirm:` of _run_removal
Declines(confirm) == ~confirm

\* ControlPanel._run_removal: the plan has suspects and the operator answers
\* the confirmation dialog
RunRemovalAsked ==
    /\ RemovalReady
    /\ Get(state.current_group_plan).suspects # <<>>
    /\ \E confirm \in BOOLEAN :
          IF Declines(confirm)
          THEN /\ Advance(state)
               /\ UNCHANGED <<workflow_process, chan, ui, req_limit, restart_at, nreq, asked>>
          ELSE /\ asked' = IF confirm THEN "yes" ELSE "no"
               /\ state' = [state EXCEPT !.current_group_plan =
                                            Some([Get(@) EXCEPT !.confirmed = TRUE])]
               /\ save_state(state')
               /\ RequestAgentStep("remove",
                                   [NoParams EXCEPT !.suspects =
                                       SelectSeqMap(Get(state'.current_group_plan).suspects,
                                                    Triple)],
                                   "remove")
               /\ UNCHANGED <<status_file, result_file, req_limit, restart_at, nadv, adv_sum,
                            pass_reports>>
    /\ UNCHANGED <<worker, pollers, after_queue, dispatched, status_hist, sup>>

\* The handlers with the cursor at or past the end of unread_groups: each
\* shows "Complete: All unread groups processed." and returns
ShowComplete ==
    /\ UiReady
    /\ ~CursorInRange(state)
    /\ IsSome(pass_reports) => Get(pass_reports) < MaxReports
    /\ pass_reports' = Reported(pass_reports)
    /\ UNCHANGED <<state, snapshot, workflow_process, chan, worker, pollers, after_queue, ui,
                   sup, req_limit, restart_at, nreq, asked, dispatched, status_hist, nadv, adv_sum>>

\* ControlPanel._run_read_messages, idx >= len(unread_groups)
RunReadMessagesComplete ==
    /\ workflow_process # "None"
    /\ state.unread_groups # <<>>
    /\ ShowComplete

\* ControlPanel._run_extract, idx >= len(unread_groups)
RunExtractComplete ==
    /\ state.unread_groups # <<>>
    /\ ShowComplete

\* ControlPanel._run_build_plan, idx >= len(unread_groups)
RunBuildPlanComplete == ShowComplete

\* ControlPanel._run_removal, idx >= len(unread_groups)
RunRemovalComplete ==
    /\ workflow_process # "None"
    /\ ShowComplete

\* ControlPanel._on_removal_result up to its own _save_state: the note and
\* the log entry are persisted before the advance.  unread_groups[idx] raises
\* IndexError when the cursor is past the list, and the callback then changes
\* nothing
OnRemovalResult ==
    /\ NextCallback("result", "remove")
    /\ LET text_output == Head(after_queue).payload.text
       IN IF CursorInRange(state)
          THEN /\ nadv < MaxAdvances
               /\ state' = [state EXCEPT
                        !.current_group_plan =
                            IF IsSome(@) THEN Some([Get(@) EXCEPT !.note = Some(text_output)])
                            ELSE @,
                        !.step_logs = LogPut(@, RemovalKey(CurrentThread(state).thread_id),
                                             text_output)]
               /\ save_state(state')
               /\ ui' = [ui EXCEPT !.pc = "advance"]
          ELSE UNCHANGED <<state, snapshot, ui>>
    /\ after_queue' = Tail(after_queue)
    /\ UNCHANGED <<workflow_process, chan, worker, pollers, hist, sup>>

\* the rest of _on_removal_result: _advance_to_next_group
OnRemovalAdvance ==
    /\ ui.pc = "advance"
    /\ Advance(state)
    /\ ui' = UiIdle
    /\ UNCHANGED <<workflow_process, chan, worker, pollers, after_queue,
                   req_limit, restart_at, nreq, asked, dispatched, status_hist, sup>>

\* ControlPanel._reset_state, the operator answering Yes
ResetState ==
    /\ UiReady
    /\ state' = PanelState0
    /\ save_state(state')
    /\ nadv' = 0
    /\ adv_sum' = 0
    /\ pass_reports' = None
    /\ UNCHANGED <<workflow_process, chan, worker, pollers, after_queue, ui,
                   req_limit, restart_at, nreq, asked, dispatched, status_hist, sup>>

(***************************************************************************)
(* Controller: manual data loading.  A dialog result that is empty, or one *)
(* the handler cannot parse before its first assignment, changes nothing.  *)
(***************************************************************************)
\* the threads of the filter example: a group with unread messages, an unread
\* chat that is no group, a group without unread messages
LoadThreadsInputs ==
    {<<ThreadItem("g1", TRUE, TRUE), ThreadItem("c1", TRUE, FALSE),
       ThreadItem("g2", FALSE, TRUE)>>}
LoadGroupsInputs == {<<ThreadItem("g1", TRUE, TRUE), ThreadItem("g2", TRUE, TRUE)>>}
ReadEntry(tid, isdict, text, screenshots) ==
    [tid |-> tid, isdict |-> isdict, text |-> text, screenshots |-> screenshots]
\* {"threads": [...], "read_results": {tid: {"text", "screenshots"}}}: the
\* example of the dialog, a file without the "threads" key, and a file whose
\* read result is no object
LoadReadResultsInputs ==
    {[threads |-> <<ThreadItem("g1", TRUE, TRUE)>>,
      read_results |-> <<ReadEntry("g1", TRUE,
                           TextSuspects(<<SuspectItem("a", "A")>>), <<>>)>>],
     [threads |-> <<>>,
      read_results |-> <<ReadEntry("g1", TRUE,
                           TextSuspects(<<SuspectItem("a", "A")>>), <<>>)>>],
     [threads |-> <<ThreadItem("g1", TRUE, TRUE)>>,
      read_results |-> <<ReadEntry("g1", FALSE, TextPlain(""), <<>>)>>]}
LoadSuspectsInputs == {<<Suspect("c", "C", "", "", "g2")>>}
\* {"suspects": [...], "confirmed": ..., "note": ""}
LoadPlanInputs == {[suspects |-> <<>>, confirmed |-> FALSE, note |-> Some(TextPlain(""))]}

LoadSuspect(s) == Suspect(s.sender_id, s.sender_name, Path(s.avatar_path), s.evidence_text,
                          s.thread_id)

\* ControlPanel._load_threads, the dialog returning one of inputs
LoadThreadsFrom(inputs) ==
    /\ UiReady
    /\ \E input \in inputs :
          state' = [state EXCEPT !.threads = SelectSeqMap(input, ParseThreadItem)]
    /\ save_state(state')
    /\ UNCHANGED <<workflow_process, chan, worker, pollers, after_queue, ui, hist, sup>>

LoadThreads == LoadThreadsFrom(LoadThreadsInputs)

\* thread lists of every shape up to MaxThreads entries: groups and chats,
\* unread or not, an id more than once; an empty list is not loaded
\* (`if dialog.result:`)
ThreadItems ==
    {ThreadItem("g1", TRUE, TRUE), ThreadItem("g2", TRUE, TRUE), ThreadItem("g3", FALSE, TRUE),
     ThreadItem("c1", TRUE, FALSE)}
ThreadLists == UNION {[1..n -> ThreadItems] : n \in 1..MaxThreads}
LoadAnyThreads == LoadThreadsFrom(ThreadLists)

\* ControlPanel._load_groups
LoadGroups ==
    /\ UiReady
    /\ \E input \in LoadGroupsInputs :
          state' = [state EXCEPT !.unread_groups = SelectSeqMap(input, ParseThreadItem),
                                 !.current_thread_index = 0]
    /\ save_state(state')
    /\ UNCHANGED <<workflow_process, chan, worker, pollers, after_queue, ui, hist, sup>>

\* the loop of _load_read_results over read_results.items(), as far as it gets
RECURSIVE PutReadResults(_, _)
PutReadResults(logs, entries) ==
    IF entries = <<>> \/ ~Head(entries).isdict THEN logs
    ELSE PutReadResults(
             LogPut(LogPut(logs, ReadKey(Head(entries).tid), Head(entries).text),
                    ShotsKey(Head(entries).tid), TextShots(Head(entries).screenshots)),
             Tail(entries))
AllDicts(entries) == \A i \in 1..Len(entries) : entries[i].isdict

\* ControlPanel._load_read_results: unread_groups is assigned first, and an
\* entry that is no object raises before _save_state
LoadReadResults ==
    /\ UiReady
    /\ \E input \in LoadReadResultsInputs :
          /\ state' = [state EXCEPT
                          !.unread_groups = SelectSeqMap(input.threads, ParseThreadItem),
                          !.step_logs = PutReadResults(@, input.read_results)]
          /\ IF AllDicts(input.read_results) THEN save_state(state')
             ELSE UNCHANGED snapshot
    /\ UNCHANGED <<workflow_process, chan, worker, pollers, after_queue, ui, hist, sup>>

\* ControlPanel._load_suspects
LoadSuspects ==
    /\ UiReady
    /\ \E input \in LoadSuspectsInputs :
          state' = [state EXCEPT !.current_group_suspects = SelectSeqMap(input, LoadSuspect)]
    /\ save_state(state')
    /\ UNCHANGED <<workflow_process, chan, worker, pollers, after_queue, ui, hist, sup>>

\* ControlPanel._load_plan
LoadPlan ==
    /\ UiReady
    /\ \E input \in LoadPlanInputs :
          state' = [state EXCEPT !.current_group_plan =
                       Some(RemovalPlan(SelectSeqMap(input.suspects, LoadSuspect),
                                        input.confirmed, input.note))]
    /\ save_state(state')
    /\ UNCHANGED <<workflow_process, chan, worker, pollers, after_queue, ui, hist, sup>>

(***************************************************************************)
(* Supervision of the worker process, as far as the step channel sees it.  *)
(***************************************************************************)
\* ControlPanel._start_workflow (through _toggle_workflow: no handle yet)
StartWorkflow ==
    /\ UiReady
    /\ workflow_process = "None"
    /\ workflow_process' = "alive"
    /\ worker' = WorkerIdle
    /\ UNCHANGED <<state, snapshot, chan, pollers, after_queue, ui, hist, sup>>

\* ControlPanel._stop_workflow: terminate, wait, kill; the handle is dropped
StopWorkflow ==
    /\ UiReady
    /\ workflow_process # "None"
    /\ workflow_process' = "None"
    /\ worker' = WorkerIdle
    /\ UNCHANGED <<state, snapshot, chan, pollers, after_queue, ui, hist, sup>>

\* the worker process ends on its own (a crash, an unhandled exception)
WorkerExit ==
    /\ workflow_process = "alive"
    /\ workflow_process' = "exited"
    /\ worker' = WorkerIdle
    /\ UNCHANGED <<state, snapshot, chan, pollers, after_queue, ui, hist, sup>>

\* monitor_workflow sees poll() is not None and drops the handle
MonitorWorkflowExit ==
    /\ workflow_process = "exited"
    /\ workflow_process' = "None"
    /\ UNCHANGED <<state, snapshot, chan, worker, pollers, after_queue, ui, hist, sup>>

\* The controller is closed (_on_close stops the worker) or killed, and started
\* again: ControlPanel.__init__ loads the state from the snapshot and has no
\* process handle; the poller threads and the callbacks waiting in Tk went with
\* the old process, and the channel files stay on disk
Restart ==
    /\ state' = load_state(snapshot)
    /\ workflow_process' = "None"
    /\ worker' = WorkerIdle
    /\ pollers' = <<>>
    /\ after_queue' = <<>>
    /\ ui' = UiIdle
    /\ asked' = ""
    /\ restart_at' = nreq
    /\ UNCHANGED <<snapshot, chan, sup, req_limit, nreq, dispatched, status_hist, nadv, adv_sum,
                   pass_reports>>

(***************************************************************************)
(* Supervision of the two child processes in full: the processes, the      *)
(* monitor threads started with them, and the label updates the threads    *)
(* hand to the Tk thread.  A monitor thread reads self.server_process (or  *)
(* self.workflow_process) anew at every use, so after a stop and a start   *)
(* it goes on with the handle of the new process.  Time is not modelled:   *)
(* the 30 s window of monitor_server lasts MaxWaitIter iterations at most. *)
(***************************************************************************)
\* a child process; exit_running records that it ended on its own while the
\* handle named it and the server label said Running
Proc(kind) ==
    [kind |-> kind, alive |-> TRUE, listening |-> FALSE, printed |-> 0, out |-> <<>>,
     exit_running |-> FALSE]
\* a monitor thread: where it is, `ready` / `ready_seen`, the process whose
\* pipe its readline was called on, the iterations of its wait so far, how it
\* ended, and the statuses it handed to the Tk thread
MonitorThread(kind) ==
    [kind |-> kind, pc |-> "loop", ready |-> FALSE, pipe |-> 0, iter |-> 0, end |-> "",
     shown |-> <<>>]
LabelUpdate(widget, text, pid) == [widget |-> widget, text |-> text, pid |-> pid]

Pids == 1..Len(procs)
Alive(pid) == pid # 0 /\ procs[pid].alive
\* something answers on port 8000
PortServed == other_server \/ \E p \in Pids : procs[p].alive /\ procs[p].listening
MonitorAt(m, kind, pc) == m \in Pids /\ monitors[m].kind = kind /\ monitors[m].pc = pc
MonitorGoes(m, pc) == monitors' = [monitors EXCEPT ![m].pc = pc]
MonitorEnds(m, end) == monitors' = [monitors EXCEPT ![m].pc = "done", ![m].end = end]
\* root.after(0, lambda: <label>.config(text=...)) by monitor thread m
MonitorShows(m, pc, widget, text, pid) ==
    /\ tk_queue' = Append(tk_queue, LabelUpdate(widget, text, pid))
    /\ monitors' = [monitors EXCEPT ![m].pc = pc, ![m].shown = Append(@, text)]
SpawnProcess(kind) ==
    /\ Len(procs) < MaxSpawns
    /\ procs' = Append(procs, Proc(kind))
    /\ monitors' = Append(monitors, MonitorThread(kind))
Workflow == <<state, snapshot, workflow_process, chan, worker, pollers, after_queue, hist>>

\* Tk runs a queued label update
TkRun ==
    /\ UiReady
    /\ tk_queue # <<>>
    /\ IF Head(tk_queue).widget = "server"
       THEN server_status' = Head(tk_queue).text /\ UNCHANGED workflow_status
       ELSE workflow_status' = Head(tk_queue).text /\ UNCHANGED server_status
    /\ tk_queue' = Tail(tk_queue)
    /\ UNCHANGED <<Workflow, ui, server_process, workflow_pid, procs, monitors, other_server>>

\* a child process ends on its own
ProcessExits(p) ==
    /\ p \in Pids
    /\ procs[p].alive
    /\ procs' = [procs EXCEPT ![p].alive = FALSE, ![p].listening = FALSE,
                              ![p].exit_running = p = server_process
                                                    /\ server_status = "Running"]
    /\ workflow_process' = IF p = workflow_pid THEN "exited" ELSE workflow_process
    /\ UNCHANGED <<state, snapshot, chan, worker, pollers, after_queue, hist, ui, server_process,
                   server_status, workflow_pid, workflow_status, monitors, tk_queue,
                   other_server>>

\* a process the panel did not start begins to listen on port 8000
OtherServerStarts ==
    /\ ~PortServed
    /\ other_server' = TRUE
    /\ UNCHANGED <<Workflow, ui, server_process, server_status, workflow_pid, workflow_status,
                   procs, monitors, tk_queue>>

\* computer_server binds port 8000 and serves /status, or fails to bind and exits
ServerBinds(p) ==
    /\ p \in Pids
    /\ procs[p].kind = "server"
    /\ procs[p].alive
    /\ ~procs[p].listening
    /\ procs' = IF PortServed THEN [procs EXCEPT ![p].alive = FALSE]
                ELSE [procs EXCEPT ![p].listening = TRUE]
    /\ UNCHANGED <<Workflow, ui, server_process, server_status, workflow_pid, workflow_status,
                   monitors, tk_queue, other_server>>

\* ControlPanel._start_server (through _toggle_server: no handle): the bind
\* check finds port 8000 in use, the error box is shown and nothing is spawned
StartServerPortInUse ==
    /\ UiReady
    /\ server_process = 0
    /\ PortServed
    /\ UNCHANGED vars

\* ControlPanel._start_server: the port is free, the process is spawned and
\* its monitor thread started
StartServer ==
    /\ UiReady
    /\ server_process = 0
    /\ ~PortServed
    /\ SpawnProcess("server")
    /\ server_process' = Len(procs) + 1
    /\ server_status' = "Starting..."
    /\ UNCHANGED <<Workflow, ui, workflow_pid, workflow_status, tk_queue, other_server>>

\* monitor_server: `while self.server_process and time.time() - start_time < 30`
MonitorServerLoop(m) ==
    /\ MonitorAt(m, "server", "loop")
    /\ \E in_time \in (IF monitors[m].iter < MaxWaitIter THEN BOOLEAN ELSE {FALSE}) :
          MonitorGoes(m, IF server_process # 0 /\ in_time THEN "poll" ELSE "after")
    /\ UNCHANGED <<Workflow, ui, server_process, server_status, workflow_pid, workflow_status,
                   procs, tk_queue, other_server>>

\* monitor_server: `if self.server_process.poll() is not None`; with the handle
\* gone the attribute access raises and the thread ends
MonitorServerPoll(m) ==
    /\ MonitorAt(m, "server", "poll")
    /\ IF server_process = 0
       THEN MonitorEnds(m, "raised") /\ UNCHANGED tk_queue
       ELSE IF ~Alive(server_process)
       THEN MonitorShows(m, "clear", "server", "Failed", server_process)
       ELSE MonitorGoes(m, "health") /\ UNCHANGED tk_queue
    /\ UNCHANGED <<Workflow, ui, server_process, server_status, workflow_pid, workflow_status,
                   procs, other_server>>

\* monitor_server: `self.server_process = None; return`
MonitorServerClear(m) ==
    /\ MonitorAt(m, "server", "clear") \/ MonitorAt(m, "server", "died")
    /\ server_process' = 0
    /\ MonitorEnds(m, IF monitors[m].pc = "died" THEN "died" ELSE "exited")
    /\ UNCHANGED <<Workflow, ui, server_status, workflow_pid, workflow_status, procs, tk_queue,
                   other_server>>

\* monitor_server: _check_server_ready(), and time.sleep(0.5) when it fails
MonitorServerHealth(m) ==
    /\ MonitorAt(m, "server", "health")
    /\ \E ok \in (IF PortServed THEN BOOLEAN ELSE {FALSE}) :
          monitors' = IF ok THEN [monitors EXCEPT ![m].pc = "recheck"]
                      ELSE [monitors EXCEPT ![m].pc = "loop", ![m].iter = @ + 1]
    /\ UNCHANGED <<Workflow, ui, server_process, server_status, workflow_pid, workflow_status,
                   procs, tk_queue, other_server>>

\* a monitor_server that takes the health success for its own process
MonitorServerNoRecheck(m) ==
    /\ MonitorAt(m, "server", "recheck")
    /\ tk_queue' = Append(tk_queue, LabelUpdate("server", "Running", server_process))
    /\ monitors' = [monitors EXCEPT ![m].pc = "after", ![m].ready = TRUE,
                                    ![m].shown = Append(@, "Running")]
    /\ UNCHANGED <<Workflow, ui, server_process, server_status, workflow_pid, workflow_status,
                   procs, other_server>>

\* monitor_server after a health success: "Verify our process is still alive
\* (not detecting someone else's server)", then Running and break
MonitorServerRecheck(m) ==
    /\ MonitorAt(m, "server", "recheck")
    /\ IF server_process = 0
       THEN MonitorEnds(m, "raised") /\ UNCHANGED tk_queue
       ELSE IF ~Alive(server_process)
       THEN MonitorShows(m, "died", "server", "Failed", server_process)
       ELSE /\ tk_queue' = Append(tk_queue, LabelUpdate("server", "Running", server_process))
            /\ monitors' = [monitors EXCEPT ![m].pc = "after", ![m].ready = TRUE,
                                            ![m].shown = Append(@, "Running")]
    /\ UNCHANGED <<Workflow, ui, server_process, server_status, workflow_pid, workflow_status,
                   procs, other_server>>

\* a monitor_server that takes the end of the window for a failure
MonitorServerAfterFailed(m) ==
    /\ MonitorAt(m, "server", "after")
    /\ IF ~monitors[m].ready /\ server_process # 0
       THEN MonitorShows(m, "clear", "server", "Failed", server_process)
       ELSE /\ MonitorEnds(m, IF monitors[m].ready THEN "ready" ELSE "stopped")
            /\ UNCHANGED tk_queue
    /\ UNCHANGED <<Workflow, ui, server_process, server_status, workflow_pid, workflow_status,
                   procs, other_server>>

\* monitor_server after the loop: `if not ready and self.server_process`, then
\* the thread only reads the output
MonitorServerAfter(m) ==
    /\ MonitorAt(m, "server", "after")
    /\ IF ~monitors[m].ready /\ server_process # 0
       THEN /\ tk_queue' = Append(tk_queue, LabelUpdate("server", "Unknown", server_process))
            /\ monitors' = [monitors EXCEPT ![m].pc = "done", ![m].end = "timeout",
                                            ![m].shown = Append(@, "Unknown")]
       ELSE /\ MonitorEnds(m, IF monitors[m].ready THEN "ready" ELSE "stopped")
            /\ UNCHANGED tk_queue
    /\ UNCHANGED <<Workflow, ui, server_process, server_status, workflow_pid, workflow_status,
                   procs, other_server>>

\* ControlPanel._stop_server (through _toggle_server: a handle is there):
\* `if self.server_process:` holds
StopServer ==
    /\ UiReady
    /\ server_process # 0
    /\ ui' = [ui EXCEPT !.pc = "stop_server"]
    /\ UNCHANGED <<Workflow, sup>>

\* _stop_server: terminate() and wait(timeout=5), kill() when the wait times
\* out: the process is gone.  With the handle cleared by the monitor thread
\* meanwhile, terminate() raises AttributeError, so does kill() in the except
\* branch, and the handler ends there
StopServerTerminate ==
    /\ ui.pc = "stop_server"
    /\ IF server_process = 0
       THEN ui' = UiIdle /\ UNCHANGED procs
       ELSE /\ procs' = [procs EXCEPT ![server_process].alive = FALSE,
                                      ![server_process].listening = FALSE]
            /\ ui' = [ui EXCEPT !.pc = "stop_server_clear"]
    /\ UNCHANGED <<Workflow, server_process, server_status, workflow_pid, workflow_status,
                   monitors, tk_queue, other_server>>

\* _stop_server: the handle is cleared and the label set to Stopped
StopServerClear ==
    /\ ui.pc = "stop_server_clear"
    /\ server_process' = 0
    /\ server_status' = "Stopped"
    /\ ui' = UiIdle
    /\ UNCHANGED <<Workflow, workflow_pid, workflow_status, procs, monitors, tk_queue,
                   other_server>>

\* the lines a worker process prints, in order: the banner of
\* orchestrate_step_mode and the two marker lines of run_loop among others
WorkerLine(k) == IF k \in {2, 3} THEN "marker" ELSE "other"
Coordinator == <<state, snapshot, chan, worker, pollers, after_queue, hist>>

\* the worker process prints its next line to its stdout pipe
WorkerPrints(p) ==
    /\ p \in Pids
    /\ procs[p].kind = "workflow"
    /\ procs[p].alive
    /\ procs[p].printed < MaxPrinted
    /\ procs' = [procs EXCEPT ![p].printed = @ + 1,
                              ![p].out = Append(@, WorkerLine(procs[p].printed + 1))]
    /\ UNCHANGED <<Workflow, ui, server_process, server_status, workflow_pid, workflow_status,
                   monitors, tk_queue, other_server>>

\* ControlPanel._start_workflow (through _toggle_workflow: no handle); the
\* health probe only logs a warning
SpawnWorkflow ==
    /\ UiReady
    /\ workflow_pid = 0
    /\ SpawnProcess("workflow")
    /\ workflow_pid' = Len(procs) + 1
    /\ workflow_process' = "alive"
    /\ workflow_status' = "Starting..."
    /\ UNCHANGED <<Coordinator, ui, server_process, server_status, tk_queue, other_server>>

\* monitor_workflow: `if self.workflow_process and self.workflow_process.stdout`
\* and `while self.workflow_process`
MonitorWorkflowLoop(m) ==
    /\ MonitorAt(m, "workflow", "loop")
    /\ monitors[m].iter <= MaxWaitIter
    /\ MonitorGoes(m, IF workflow_pid # 0 THEN "poll" ELSE "done")
    /\ UNCHANGED <<Workflow, ui, server_process, server_status, workflow_pid, workflow_status,
                   procs, tk_queue, other_server>>

\* monitor_workflow: `if self.workflow_process.poll() is not None`: the rest of
\* the output is read and Stopped handed to the Tk thread; otherwise readline()
\* is called on the stdout of the process the handle names now
MonitorWorkflowPoll(m) ==
    /\ MonitorAt(m, "workflow", "poll")
    /\ IF workflow_pid = 0
       THEN MonitorEnds(m, "raised") /\ UNCHANGED <<tk_queue, procs>>
       ELSE IF ~Alive(workflow_pid)
       THEN /\ MonitorShows(m, "clear", "workflow", "Stopped", workflow_pid)
            /\ procs' = [procs EXCEPT ![workflow_pid].out = <<>>]
       ELSE /\ monitors' = [monitors EXCEPT ![m].pc = "readline", ![m].pipe = workflow_pid]
            /\ UNCHANGED <<tk_queue, procs>>
    /\ UNCHANGED <<Workflow, ui, server_process, server_status, workflow_pid, workflow_status,
                   other_server>>

\* monitor_workflow: `self.workflow_process = None; return`
MonitorWorkflowClear(m) ==
    /\ MonitorAt(m, "workflow", "clear")
    /\ workflow_pid' = 0
    /\ workflow_process' = "None"
    /\ MonitorEnds(m, "exited")
    /\ UNCHANGED <<Coordinator, ui, server_process, server_status, workflow_status, procs,
                   tk_queue, other_server>>

\* monitor_workflow: readline() returns a line, or b"" at the end of the
\* stream; it blocks while the process lives and has printed nothing new
MonitorWorkflowReadline(m) ==
    /\ MonitorAt(m, "workflow", "readline")
    /\ LET q == monitors[m].pipe
       IN IF procs[q].out # <<>>
          THEN /\ procs' = [procs EXCEPT ![q].out = Tail(@)]
               /\ IF Head(procs[q].out) = "marker"
                  THEN /\ tk_queue' = Append(tk_queue, LabelUpdate("workflow", "Running", q))
                       /\ monitors' = [monitors EXCEPT ![m].pc = "loop", ![m].ready = TRUE,
                                                       ![m].iter = @ + 1,
                                                       ![m].shown = Append(@, "Running")]
                  ELSE /\ monitors' = [monitors EXCEPT ![m].pc = "loop", ![m].iter = @ + 1]
                       /\ UNCHANGED tk_queue
          ELSE /\ ~procs[q].alive
               /\ monitors' = [monitors EXCEPT ![m].pc = "loop", ![m].iter = @ + 1]
               /\ UNCHANGED <<tk_queue, procs>>
    /\ UNCHANGED <<Workflow, ui, server_process, server_status, workflow_pid, workflow_status,
                   other_server>>

\* ControlPanel._stop_workflow (through _toggle_workflow: a handle is there)
StopWorkflowProcess ==
    /\ UiReady
    /\ workflow_pid # 0
    /\ ui' = [ui EXCEPT !.pc = "stop_workflow"]
    /\ UNCHANGED <<Workflow, sup>>

\* _stop_workflow: terminate(), wait(timeout=5), kill(); AttributeError twice
\* when the monitor thread cleared the handle meanwhile
StopWorkflowTerminate ==
    /\ ui.pc = "stop_workflow"
    /\ IF workflow_pid = 0
       THEN ui' = UiIdle /\ UNCHANGED <<procs, workflow_process>>
       ELSE /\ procs' = [procs EXCEPT ![workflow_pid].alive = FALSE]
            /\ workflow_process' = "exited"
            /\ ui' = [ui EXCEPT !.pc = "stop_workflow_clear"]
    /\ UNCHANGED <<Coordinator, server_process, server_status, workflow_pid, workflow_status,
                   monitors, tk_queue, other_server>>

\* _stop_workflow: the handle is cleared and the label set to Stopped
StopWorkflowClear ==
    /\ ui.pc = "stop_workflow_clear"
    /\ workflow_pid' = 0
    /\ workflow_process' = "None"
    /\ workflow_status' = "Stopped"
    /\ ui' = UiIdle
    /\ UNCHANGED <<Coordinator, server_process, server_status, procs, monitors, tk_queue,
                   other_server>>

(***************************************************************************)
(* The step worker loop (StepModeRunner).                                  *)
(***************************************************************************)
WorkerAt(pc) == workflow_process = "alive" /\ worker.pc = pc
WroteStatus(id, val) == status_hist' = [status_hist EXCEPT ![id] = Append(@, val)]

\* run_loop: request_file.exists(), read_text, json.loads
WorkerReadRequest ==
    /\ WorkerAt("poll")
    /\ IsSome(request_file)
    /\ worker' = [pc |-> IF Get(request_file).json THEN "clear" ELSE "bad_clear",
                  req |-> Get(request_file)]
    /\ UNCHANGED <<state, snapshot, workflow_process, chan, pollers, after_queue, ui, hist, sup>>

\* a _clear_request that leaves the request file in place
_clear_request_kept == UNCHANGED request_file

\* StepModeRunner._clear_request: whatever the file holds now is unlinked
_clear_request == request_file' = None

\* run_loop: _clear_request() after a successful json.loads
WorkerClearRequest ==
    /\ WorkerAt("clear")
    /\ _clear_request
    /\ worker' = [worker EXCEPT !.pc = "running"]
    /\ UNCHANGED <<state, snapshot, workflow_process, status_file, result_file, pollers,
                   after_queue, ui, hist, sup>>

\* process_request: _write_status("running"), then the handler is entered
WorkerWriteRunning ==
    /\ WorkerAt("running")
    /\ status_file' = Some(Status("running", worker.req.id))
    /\ WroteStatus(worker.req.id, "running")
    /\ dispatched' = [dispatched EXCEPT ![worker.req.id] = @ + 1]
    /\ worker' = [worker EXCEPT !.pc = "handler"]
    /\ UNCHANGED <<state, snapshot, workflow_process, request_file, result_file, pollers,
                   after_queue, ui, sup, req_limit, restart_at, nreq, asked, nadv, adv_sum,
                   pass_reports>>

\* handle_classify / handle_read_messages / handle_remove: the agent answers
\* and _write_result writes the payload
WorkerWriteResult ==
    /\ WorkerAt("handler")
    /\ \E text \in AgentTexts(worker.req.step), screenshots \in ShotLists :
          result_file' = Some(Result(text, screenshots, worker.req.id))
    /\ worker' = [worker EXCEPT !.pc = "complete"]
    /\ UNCHANGED <<state, snapshot, workflow_process, request_file, status_file, pollers,
                   after_queue, ui, hist, sup>>

\* the handlers: _write_status("complete")
WorkerWriteComplete ==
    /\ WorkerAt("complete")
    /\ status_file' = Some(Status("complete", worker.req.id))
    /\ WroteStatus(worker.req.id, "complete")
    /\ worker' = WorkerIdle
    /\ UNCHANGED <<state, snapshot, workflow_process, request_file, result_file, pollers,
                   after_queue, ui, sup, req_limit, restart_at, nreq, asked, dispatched, nadv, adv_sum,
                   pass_reports>>

\* process_request: the handler raises; _write_error writes the message
WorkerHandlerRaises ==
    /\ WorkerAt("handler")
    /\ result_file' = Some(ErrorText(worker.req.id))
    /\ worker' = [worker EXCEPT !.pc = "error"]
    /\ UNCHANGED <<state, snapshot, workflow_process, request_file, status_file, pollers,
                   after_queue, ui, hist, sup>>

\* _write_error: _write_status("error")
WorkerWriteError ==
    /\ WorkerAt("error")
    /\ status_file' = Some(Status("error", worker.req.id))
    /\ WroteStatus(worker.req.id, "error")
    /\ worker' = WorkerIdle
    /\ UNCHANGED <<state, snapshot, workflow_process, request_file, result_file, pollers,
                   after_queue, ui, sup, req_limit, restart_at, nreq, asked, dispatched, nadv, adv_sum,
                   pass_reports>>

\* run_loop, except json.JSONDecodeError: _clear_request()
WorkerClearBadRequest ==
    /\ WorkerAt("bad_clear")
    /\ _clear_request
    /\ worker' = [worker EXCEPT !.pc = "bad_result"]
    /\ UNCHANGED <<state, snapshot, workflow_process, status_file, result_file, pollers,
                   after_queue, ui, hist, sup>>

\* run_loop, except json.JSONDecodeError: _write_error writes the message
WorkerWriteBadResult ==
    /\ WorkerAt("bad_result")
    /\ result_file' = Some(ErrorText(worker.req.id))
    /\ worker' = [worker EXCEPT !.pc = "error"]
    /\ UNCHANGED <<state, snapshot, workflow_process, request_file, status_file, pollers,
                   after_queue, ui, hist, sup>>

(***************************************************************************)
(* The poller thread of ControlPanel._poll_agent_result.  Time is not      *)
(* modelled: the liveness check (every 20th iteration) and the timeout     *)
(* (elapsed > 300) may come at any iteration.                              *)
(***************************************************************************)
PollerAt(p, pc) == p \in DOMAIN pollers /\ pollers[p].pc = pc
PollerGoes(p, pc) == pollers' = [pollers EXCEPT ![p].pc = pc]
PollerEnds(p, end) ==
    pollers' = [pollers EXCEPT ![p].pc = "done", ![p].end = end, ![p].payload = NoResult]
PollerOnly == <<state, snapshot, workflow_process, request_file, worker, ui, hist, sup>>

\* poll(): the workflow process has exited
PollWorkerExited(p) ==
    /\ PollerAt(p, "poll")
    /\ workflow_process = "exited"
    /\ after_queue' = Append(after_queue, Callback("error", pollers[p].cb, NoResult, p))
    /\ PollerEnds(p, "exited")
    /\ UNCHANGED <<PollerOnly, status_file, result_file>>

\* a timeout that cleans the status and result files up as the terminal
\* branches do
PollTimeoutClearing(p) ==
    /\ PollerAt(p, "poll")
    /\ status_file' = None
    /\ result_file' = None
    /\ after_queue' = Append(after_queue, Callback("error", pollers[p].cb, NoResult, p))
    /\ PollerEnds(p, "timeout")
    /\ UNCHANGED PollerOnly

\* poll(): elapsed > 300
PollTimeout(p) ==
    /\ PollerAt(p, "poll")
    /\ after_queue' = Append(after_queue, Callback("error", pollers[p].cb, NoResult, p))
    /\ PollerEnds(p, "timeout")
    /\ UNCHANGED <<PollerOnly, status_file, result_file>>

\* poll(): status_file.exists()
PollStatusExists(p) ==
    /\ PollerAt(p, "poll")
    /\ IsSome(status_file)
    /\ PollerGoes(p, "s_read")
    /\ UNCHANGED <<PollerOnly, status_file, result_file, after_queue>>

\* poll(): status_file.read_text(); a file another poller has unlinked since
\* raises, and the thread ends with nothing delivered; "running" and anything
\* else lead to the sleep
PollReadStatus(p) ==
    /\ PollerAt(p, "s_read")
    /\ IF ~IsSome(status_file) THEN PollerEnds(p, "raised")
       ELSE PollerGoes(p, CASE Get(status_file).val = "complete" -> "c_exists"
                            [] Get(status_file).val = "error" -> "e_exists"
                            [] OTHER -> "poll")
    /\ UNCHANGED <<PollerOnly, status_file, result_file, after_queue>>

\* poll(): status == "complete" and result_file.exists()
PollCompleteExists(p) ==
    /\ PollerAt(p, "c_exists")
    /\ PollerGoes(p, IF IsSome(result_file) THEN "c_read" ELSE "poll")
    /\ UNCHANGED <<PollerOnly, status_file, result_file, after_queue>>

\* poll(): result_file.read_text() and json.loads; a missing file raises
\* FileNotFoundError and a text that is not JSON raises JSONDecodeError, and
\* either way the thread ends with nothing delivered
PollCompleteRead(p) ==
    /\ PollerAt(p, "c_read")
    /\ IF IsSome(result_file) /\ Get(result_file).json
       THEN pollers' = [pollers EXCEPT ![p].pc = "c_unlink_result",
                                       ![p].payload = Get(result_file)]
       ELSE PollerEnds(p, IF IsSome(result_file) THEN "malformed" ELSE "raised")
    /\ UNCHANGED <<PollerOnly, status_file, result_file, after_queue>>

\* poll(), status == "error": result_file.exists()
PollErrorExists(p) ==
    /\ PollerAt(p, "e_exists")
    /\ PollerGoes(p, IF IsSome(result_file) THEN "e_read" ELSE "e_unlink_result")
    /\ UNCHANGED <<PollerOnly, status_file, result_file, after_queue>>

\* poll(), status == "error": result_file.read_text()
PollErrorRead(p) ==
    /\ PollerAt(p, "e_read")
    /\ IF IsSome(result_file)
       THEN pollers' = [pollers EXCEPT ![p].pc = "e_unlink_result",
                                       ![p].payload = Get(result_file)]
       ELSE PollerEnds(p, "raised")
    /\ UNCHANGED <<PollerOnly, status_file, result_file, after_queue>>

\* poll(): result_file.unlink(missing_ok=True), on either path
PollUnlinkResult(p) ==
    /\ \/ PollerAt(p, "c_unlink_result") /\ PollerGoes(p, "c_unlink_status")
       \/ PollerAt(p, "e_unlink_result") /\ PollerGoes(p, "e_unlink_status")
    /\ result_file' = None
    /\ UNCHANGED <<PollerOnly, status_file, after_queue>>

\* poll(): status_file.unlink(missing_ok=True), root.after(0, callback(result))
PollDeliverResult(p) ==
    /\ PollerAt(p, "c_unlink_status")
    /\ status_file' = None
    /\ after_queue' = Append(after_queue,
                             Callback("result", pollers[p].cb, pollers[p].payload, p))
    /\ PollerEnds(p, "result")
    /\ UNCHANGED <<PollerOnly, result_file>>

\* poll(): status_file.unlink(missing_ok=True), root.after(0, _on_agent_error)
PollDeliverError(p) ==
    /\ PollerAt(p, "e_unlink_status")
    /\ status_file' = None
    /\ after_queue' = Append(after_queue,
                             Callback("error", pollers[p].cb, pollers[p].payload, p))
    /\ PollerEnds(p, "error")
    /\ UNCHANGED <<PollerOnly, result_file>>

(***************************************************************************)
(* The system.                                                             *)
(***************************************************************************)
\* the worker process, the poller threads and the Tk thread inside a handler
Background ==
    \/ FinishRequest
    \/ WorkerExit
    \/ MonitorWorkflowExit
    \/ WorkerReadRequest
    \/ WorkerClearRequest
    \/ WorkerWriteRunning
    \/ WorkerWriteResult
    \/ WorkerWriteComplete
    \/ WorkerHandlerRaises
    \/ WorkerWriteError
    \/ WorkerClearBadRequest
    \/ WorkerWriteBadResult
    \/ \E p \in ReqIds : PollWorkerExited(p)
    \/ \E p \in ReqIds : PollTimeout(p)
    \/ \E p \in ReqIds : PollStatusExists(p)
    \/ \E p \in ReqIds : PollReadStatus(p)
    \/ \E p \in ReqIds : PollCompleteExists(p)
    \/ \E p \in ReqIds : PollCompleteRead(p)
    \/ \E p \in ReqIds : PollErrorExists(p)
    \/ \E p \in ReqIds : PollErrorRead(p)
    \/ \E p \in ReqIds : PollUnlinkResult(p)
    \/ \E p \in ReqIds : PollDeliverResult(p)
    \/ \E p \in ReqIds : PollDeliverError(p)

(***************************************************************************)
(* Spec: the removal workflow.  The operator loads threads, read results   *)
(* and plans, filters, extracts, plans and removes; the remove step goes   *)
(* through the step channel to the worker, under every interleaving of the *)
(* Tk thread, the poller and the worker.                                   *)
(***************************************************************************)
Next ==
    \/ OnAgentError
    \/ RunFilter
    \/ RunExtract
    \/ RunBuildPlan
    \/ RunRemovalEmpty
    \/ RunRemovalAsked
    \/ OnRemovalResult
    \/ OnRemovalAdvance
    \/ ResetState
    \/ LoadThreads
    \/ LoadReadResults
    \/ LoadPlan
    \/ StartWorkflow
    \/ StopWorkflow
    \/ Background

Init == InitWith(MaxWorkflowReq)
Spec == Init /\ [][Next]_vars

(***************************************************************************)
(* SpecChannel: the step channel.  The operator presses Classify, and      *)
(* starts and stops the worker, in any order and at any time.              *)
(***************************************************************************)
NextChannel ==
    \/ RunClassify
    \/ OnClassifyResult
    \/ OnAgentError
    \/ StartWorkflow
    \/ StopWorkflow
    \/ Background

InitChannel == InitWith(MaxReq)
SpecChannel == InitChannel /\ [][NextChannel]_vars

(***************************************************************************)
(* SpecManual: the coordinator driven by hand.  Every manual data load,    *)
(* and the steps that need no answer of the worker.                        *)
(***************************************************************************)
NextManual ==
    \/ RunFilter
    \/ RunExtract
    \/ RunBuildPlan
    \/ RunRemovalEmpty
    \/ RunRemovalAsked
    \/ ResetState
    \/ LoadThreads
    \/ LoadGroups
    \/ LoadReadResults
    \/ LoadSuspects
    \/ LoadPlan
    \/ StartWorkflow
    \/ StopWorkflow

InitManual == InitWith(MaxManualReq)
SpecManual == InitManual /\ [][NextManual]_vars

(***************************************************************************)
(* SpecServer: the computer-server and the worker process started,         *)
(* monitored and stopped.                                                  *)
(***************************************************************************)
NextServer ==
    \/ StartServer
    \/ StartServerPortInUse
    \/ StopServer
    \/ StopServerTerminate
    \/ StopServerClear
    \/ SpawnWorkflow
    \/ StopWorkflowProcess
    \/ StopWorkflowTerminate
    \/ StopWorkflowClear
    \/ TkRun
    \/ OtherServerStarts
    \/ \E p \in 1..MaxSpawns :
          \/ ProcessExits(p)
          \/ ServerBinds(p)
          \/ WorkerPrints(p)
          \/ MonitorServerLoop(p)
          \/ MonitorServerPoll(p)
          \/ MonitorServerClear(p)
          \/ MonitorServerHealth(p)
          \/ MonitorServerRecheck(p)
          \/ MonitorServerAfter(p)
          \/ MonitorWorkflowLoop(p)
          \/ MonitorWorkflowPoll(p)
          \/ MonitorWorkflowClear(p)
          \/ MonitorWorkflowReadline(p)

InitServer == InitWith(MaxServerReq)
SpecServer == InitServer /\ [][NextServer]_vars

(***************************************************************************)
(* SpecCursor: a pass with every step that gives or moves the cursor:      *)
(* Classify, Filter, the manual group load, Read, Extract, Build Plan, the *)
(* advance over a group whose plan is empty, and Reset.                    *)
(***************************************************************************)
NextCursor ==
    \/ RunClassify
    \/ OnClassifyResult
    \/ RunFilter
    \/ LoadGroups
    \/ RunReadMessages
    \/ OnReadResult
    \/ OnAgentError
    \/ RunExtract
    \/ RunBuildPlan
    \/ LoadPlan
    \/ RunRemovalEmpty
    \/ ResetState
    \/ StartWorkflow
    \/ Background

InitCursor == InitWith(MaxCursorReq)
SpecCursor == InitCursor /\ [][NextCursor]_vars

(***************************************************************************)
(* SpecFilter: Filter over thread lists of every shape, with the advances  *)
(* that move the cursor in between.                                        *)
(***************************************************************************)
NextFilter ==
    \/ LoadAnyThreads
    \/ RunFilter
    \/ LoadPlan
    \/ RunRemovalEmpty
    \/ ResetState
    \/ StartWorkflow
    \/ RunReadMessagesComplete
    \/ RunExtractComplete
    \/ RunBuildPlanComplete
    \/ RunRemovalComplete

InitFilter == InitWith(MaxFilterReq)
SpecFilter == InitFilter /\ [][NextFilter]_vars

(***************************************************************************)
(* SpecRead: the read stage of one group.  The operator loads the groups,  *)
(* reads the group at the cursor (more than once), extracts and plans.     *)
(***************************************************************************)
NextRead ==
    \/ LoadGroups
    \/ RunReadMessages
    \/ OnReadResult
    \/ OnAgentError
    \/ RunExtract
    \/ RunBuildPlan
    \/ StartWorkflow
    \/ StopWorkflow
    \/ Background

InitRead == InitWith(MaxReadReq)
SpecRead == InitRead /\ [][NextRead]_vars

\* the removal of one group, with the controller restarted at any point
NextRestart ==
    \/ LoadReadResults
    \/ RunExtract
    \/ RunBuildPlan
    \/ RunRemovalAsked
    \/ OnRemovalResult
    \/ OnRemovalAdvance
    \/ OnAgentError
    \/ StartWorkflow
    \/ StopWorkflow
    \/ Restart
    \/ Background

InitRestart == InitWith(MaxRestartReq)
SpecRestart == InitRestart /\ [][NextRestart]_vars

(***************************************************************************)
(* Properties of the removal workflow (Spec).                              *)
(***************************************************************************)
\* C1: a remove request is written only by a _run_removal in which the
\* operator answered Yes for the current plan, which has suspects; the
\* request carries exactly the (sender_id, sender_name, thread_id) triples of
\* that plan's suspects, in their order; the request file never receives a
\* remove request from anywhere else; and a _run_removal that advances at once
\* (an empty plan, a declined confirmation) issues no request and leaves the
\* request file alone.
C1_RemoveOnlyWhenApproved ==
    [][LET plan == state.current_group_plan
           TripleOf(s) == [sender_id |-> s.sender_id, sender_name |-> s.sender_name,
                           thread_id |-> s.thread_id]
       IN /\ (nreq' = nreq + 1 /\ ui'.req.step = "remove")
                => /\ asked' = "yes"
                   /\ IsSome(plan)
                   /\ Get(plan).suspects # <<>>
                   /\ ui'.req.params.suspects = SelectSeqMap(Get(plan).suspects, TripleOf)
                   /\ request_file' = Some(Truncated(nreq'))
          /\ (/\ request_file' # request_file
              /\ IsSome(request_file')
              /\ Get(request_file').json
              /\ Get(request_file').step = "remove")
                => ui.pc = "write" /\ request_file' = Some(ui.req)
          /\ (ui.pc = "idle" /\ nadv' = nadv + 1)
                => nreq' = nreq /\ request_file' = request_file /\ ui' = ui
      ]_vars

\* C1, its case: the approved remove request of a plan with suspects is in the
\* request file
C1_RemoveRequestWritten ==
    /\ IsSome(request_file)
    /\ Get(request_file).json
    /\ Get(request_file).step = "remove"
    /\ Get(request_file).params.suspects # <<>>
    /\ IsSome(state.current_group_plan)
    /\ Get(state.current_group_plan).confirmed

\* C9: all_suspects and all_plans are append-only and change only in an
\* advance: in every step that is no operator reset the old all_suspects
\* (all_plans) is a prefix of the new one, and a step that changes either is
\* an advance; after N advances since the last reset, len(all_suspects) is
\* the sum of len(current_group_suspects) at those N advances.
C9_AccumulatorsAppendOnly ==
    /\ [](Len(state.all_suspects) = adv_sum)
    /\ [][\/ (state' = PanelState0 /\ nadv' = 0)
          \/ /\ IsPrefix(state.all_suspects, state'.all_suspects)
             /\ IsPrefix(state.all_plans, state'.all_plans)
             /\ (state'.all_suspects # state.all_suspects \/ state'.all_plans # state.all_plans)
                   => /\ nadv' = nadv + 1
                      /\ state'.all_suspects = state.all_suspects \o state.current_group_suspects
                      /\ Len(state'.all_plans) <= Len(state.all_plans) + 1
         ]_vars

\* C9, its case: two advances since the last reset, the first of a group with
\* suspects and a plan, have accumulated into all_suspects and all_plans
C9_TwoAdvancesAccumulated ==
    /\ nadv = 2
    /\ adv_sum >= 1
    /\ state.all_suspects # <<>>
    /\ state.all_plans # <<>>

C13_FailedRemoveCommitsNothing ==
    \A i \in 1..Len(after_queue) :
        (after_queue[i].kind = "error" /\ after_queue[i].cb = "remove")
            => /\ IsSome(state.current_group_plan)
                    => ~Get(state.current_group_plan).confirmed
               /\ IsSome(load_state(snapshot).current_group_plan)
                    => ~Get(load_state(snapshot).current_group_plan).confirmed

\* C18: Remove on a group whose current plan has no suspects writes no channel
\* request, advances the cursor by exactly 1, and contributes no suspect to
\* all_suspects.
C18_EmptyPlanContributesNothing ==
    [][(/\ RemovalReady
        /\ Get(state.current_group_plan).suspects = <<>>
        /\ nadv' = nadv + 1)
          => /\ nreq' = nreq
             /\ chan' = chan
             /\ state'.current_thread_index = state.current_thread_index + 1
             /\ state'.all_suspects = state.all_suspects
      ]_vars

\* C32: the legacy suspects are all_suspects; the legacy plan is absent while
\* all_plans is empty, and otherwise holds the suspects of all plans in
\* order, confirmed, with a note giving the number of plans.
C32_LegacyViewMatches ==
    /\ state.suspects = state.all_suspects
    /\ state.plan =
         IF state.all_plans = <<>> THEN None
         ELSE Some(RemovalPlan(Flatten(SelectSeqMap(state.all_plans, PlanSuspects)), TRUE,
                               Some(TextProcessed(Len(state.all_plans)))))

\* C32 witness: two plans are accumulated, the first with suspects, and the
\* legacy plan holds them.
C32_TwoPlansMerged ==
    /\ Len(state.all_plans) = 2
    /\ state.all_plans[1].suspects # <<>>
    /\ state.all_suspects # <<>>
    /\ IsSome(state.plan)
    /\ Get(state.plan).suspects = state.all_plans[1].suspects \o state.all_plans[2].suspects

\* C35: the cursor moves by one only in a step of Remove or of its result
\* callback, and a result callback advances only when the cursor has not
\* moved since its Remove was invoked.
C35_AdvanceOncePerRemove ==
    [][/\ state'.current_thread_index = state.current_thread_index + 1
            => RunRemovalEmpty \/ RunRemovalAsked \/ OnRemovalAdvance
       /\ (OnRemovalResult /\ ui'.pc = "advance")
            => /\ pollers[Head(after_queue).pid].idx = state.current_thread_index
               /\ pollers[Head(after_queue).pid].nadv = nadv]_vars


\* C39: the accumulation holds at most one plan for each group advanced past:
\* all_plans is never longer than the cursor.
C39_OnePlanPerGroupPassed ==
    Len(state.all_plans) <= state.current_thread_index

(***************************************************************************)
(* Properties of the controller restarted from its snapshot (SpecRestart). *)
(***************************************************************************)
\* C19: the controller restarted from the snapshot resumes with the persisted
\* cursor, all_suspects and all_plans, and no remove step the worker already
\* executed is executed again: while the cursor has not moved, the worker
\* enters no remove request issued since the restart if it completed a remove
\* request issued before the restart.
C19_RestartRepeatsNoRemove ==
    /\ [][restart_at' # restart_at
            => /\ state'.current_thread_index = load_state(snapshot).current_thread_index
               /\ state'.all_suspects = load_state(snapshot).all_suspects
               /\ state'.all_plans = load_state(snapshot).all_plans]_vars
    /\ [][\A id \in ReqIds :
            (/\ dispatched'[id] = dispatched[id] + 1
             /\ worker.req.step = "remove"
             /\ id > restart_at
             /\ nadv = 0)
                => ~\E old \in 1..restart_at :
                       \E k \in 1..Len(status_hist[old]) : status_hist[old][k] = "complete"
         ]_vars

(***************************************************************************)
(* Properties of Filter (SpecFilter).                                      *)
(***************************************************************************)
\* C21: Filter acts only on a non-empty threads list, and then unread_groups
\* is exactly the threads with is_group and unread both true, in their
\* original order (the k-th unread group is the k-th such thread), the cursor
\* is 0 and threads is as before; for [g1 group unread, c1 chat unread,
\* g2 group read] the result is [g1].
C21_FilterKeepsUnreadGroups ==
    /\ filter_unread_groups(<<GroupThread("g1", "g1", TRUE, TRUE),
                              GroupThread("c1", "c1", TRUE, FALSE),
                              GroupThread("g2", "g2", FALSE, TRUE)>>)
           = <<GroupThread("g1", "g1", TRUE, TRUE)>>
    /\ [][RunFilter
            => LET t == state.threads
                   r == state'.unread_groups
                   kept == {i \in 1..Len(t) : t[i].is_group /\ t[i].unread}
                   nth(k) == CHOOSE i \in kept : Cardinality({j \in kept : j <= i}) = k
               IN /\ t # <<>>
                  /\ Len(r) = Cardinality(kept)
                  /\ \A k \in 1..Len(r) : r[k] = t[nth(k)]
                  /\ state'.current_thread_index = 0
                  /\ state'.threads = t
                  /\ snapshot' = Some(_serialize_state(state'))
         ]_vars

\* C21, its case: after an advance had moved the cursor, Filter has kept two
\* of three threads and the cursor is back at 0
C21_FilteredAfterAdvance ==
    /\ nadv >= 1
    /\ Len(state.threads) = 3
    /\ Len(state.unread_groups) = 2
    /\ state.unread_groups = filter_unread_groups(state.threads)
    /\ state.current_thread_index = 0

\* C23: in every pass a Filter began, completion is reported as terminal
\* exactly once: no report while a group remains, and one report, no more and
\* no fewer, once the cursor has reached len(unread_groups), also when Filter
\* yields no group at all.
C23_TerminalReportedOnce ==
    IsSome(pass_reports)
        => Get(pass_reports) = IF CursorInRange(state) THEN 0 ELSE 1

(***************************************************************************)
(* Properties of the read stage (SpecRead).                                *)
(***************************************************************************)
\* C12: every step that issues a read_messages request, whatever the
\* per-group state held before, leaves current_group_suspects empty and
\* current_group_plan absent and nothing else of the state changed, with the
\* snapshot showing exactly that state, while the request file has only been
\* opened: the request itself is not in it yet.  The request names the group
\* at the cursor.
C12_ReadClearsGroupState ==
    [][(nreq' = nreq + 1 /\ ui'.req.step = "read_messages")
          => /\ state'.current_group_suspects = <<>>
             /\ state'.current_group_plan = None
             /\ state' = [state EXCEPT !.current_group_suspects = <<>>,
                                       !.current_group_plan = None]
             /\ snapshot' = Some(_serialize_state(state'))
             /\ load_state(snapshot').current_group_suspects = <<>>
             /\ load_state(snapshot').current_group_plan = None
             /\ request_file' = Some(Truncated(nreq'))
             /\ ui'.req.params.thread_id = CurrentThread(state).thread_id
      ]_vars

\* C12, its case: a second Read of a group whose first Read was answered is
\* writing its request, and the per-group state is empty in memory and in the
\* snapshot
C12_SecondReadCleared ==
    /\ nreq = 2
    /\ ui.pc = "write"
    /\ ui.req.step = "read_messages"
    /\ LogHas(state.step_logs, ReadKey(ui.req.params.thread_id))
    /\ state.current_group_suspects = <<>>
    /\ state.current_group_plan = None
    /\ snapshot = Some(_serialize_state(state))

\* C33: with the read log of the group at the cursor missing or empty,
\* Extract reports missing data; an Extract step that assigns
\* current_group_suspects has a non-empty read log of that group.
C33_ExtractNeedsReadLog ==
    /\ [](CursorInRange(state) =>
            LET k == ReadKey(CurrentThread(state).thread_id)
            IN (~LogHas(state.step_logs, k) \/ state.step_logs[k] = TextPlain(""))
                  => ExtractOutcome(state) = "missing_data")
    /\ [][RunExtract =>
            LET k == ReadKey(CurrentThread(state).thread_id)
            IN /\ LogHas(state.step_logs, k) /\ state.step_logs[k] # TextPlain("")
               /\ ExtractOutcome(state) = "extracted"]_vars

\* C34: in every state with the cursor on a group, the Tk thread idle and a
\* live worker, whatever suspects array the agent reads in that group, zero
\* suspects included, some sequence of Read, Extract and Build Plan leads to
\* a state in which Remove advances.
C34_StagesCompleteGroup ==
    (CursorInRange(state) /\ UiReady /\ workflow_process = "alive")
        => \A text \in {t \in ReadTexts : IsJsonObject(t)} : StagesReachAdvance(state, text)

(***************************************************************************)
(* Properties of the coordinator driven by hand (SpecManual).              *)
(***************************************************************************)
\* C8: in every state the cursor is within the list of unread groups:
\* 0 <= current_thread_index <= len(unread_groups).
C8_CursorInRange ==
    /\ 0 <= state.current_thread_index
    /\ state.current_thread_index <= Len(state.unread_groups)

\* C11: whenever current_group_plan is present, every suspect of its suspects
\* is one of current_group_suspects.
C11_PlanWithinGroupSuspects ==
    IsSome(state.current_group_plan)
        => \A i \in 1..Len(Get(state.current_group_plan).suspects) :
              \E j \in 1..Len(state.current_group_suspects) :
                  state.current_group_suspects[j] = Get(state.current_group_plan).suspects[i]

\* C20: at every operation boundary (the interface thread is idle) the
\* snapshot mirrors the state in memory: load_state(snapshot) equals the state,
\* a missing snapshot file loading as the empty state.
C20_SnapshotMirrorsState ==
    /\ load_state(None) = PanelState0
    /\ UiReady => load_state(snapshot) = state

\* C22: serialization round-trips: every state the coordinator reaches equals
\* _deserialize_state(_serialize_state(state)), field for field.
C22_SerializationRoundTrips ==
    LET back == _deserialize_state(_serialize_state(state))
    IN /\ DOMAIN back = DOMAIN state
       /\ \A f \in DOMAIN state : back[f] = state[f]

\* C22, its case: a state with step logs, an accumulated plan that has
\* suspects and no note, and a current plan with no suspects and an empty
\* note, which round-trips
C22_RichStateRoundTrips ==
    /\ LogHas(state.step_logs, ReadKey("g1"))
    /\ \E i \in 1..Len(state.all_plans) :
          state.all_plans[i].suspects # <<>> /\ state.all_plans[i].note = None
    /\ IsSome(state.current_group_plan)
    /\ Get(state.current_group_plan).suspects = <<>>
    /\ Get(state.current_group_plan).note = Some(TextPlain(""))
    /\ _deserialize_state(_serialize_state(state)) = state

(***************************************************************************)
(* Properties of the step channel (SpecChannel).                           *)
(***************************************************************************)
\* C2: whenever the status file holds a terminal status the worker wrote for
\* a request, the result file holds what the worker wrote for that request.
C2_StatusCommitsResult ==
    (IsSome(status_file) /\ Get(status_file).val \in {"complete", "error"})
        => (IsSome(result_file) /\ Get(result_file).id = Get(status_file).id)

\* C3: what the worker wrote for a request whose poller timed out is never
\* handed to the Tk thread by the poller of a later request, neither to the
\* result callback nor to the error handler.
C3_StaleNeverDelivered ==
    \A i \in 1..Len(after_queue) :
        LET c == after_queue[i]
        IN (c.payload.id \in DOMAIN pollers /\ pollers[c.payload.id].end = "timeout")
              => c.pid <= c.payload.id

\* C4: at most one step request is outstanding: a request being written or a
\* poller that has not ended.
C4_OneOutstanding ==
    Cardinality({p \in DOMAIN pollers : pollers[p].pc # "done"})
        + (IF ui.pc = "write" THEN 1 ELSE 0) <= 1

\* C5: every request is dispatched to process_request at most once.
C5_DispatchedAtMostOnce == \A id \in ReqIds : dispatched[id] <= 1

\* C5, its case: the worker has read a request, deleted the request file and
\* dispatched it, and is polling again with no request file to find
C5_DispatchedAndCleared ==
    \E id \in ReqIds :
        /\ dispatched[id] = 1
        /\ status_hist[id] # <<>>
        /\ WorkerAt("poll")
        /\ ~IsSome(request_file)

\* C6: the statuses the worker writes for a request are "running" first and
\* then exactly one of "complete" and "error", and nothing more.
C6_RunningThenOneTerminal ==
    \A id \in ReqIds :
        status_hist[id] \in {<<>>, <<"running">>, <<"running", "complete">>,
                             <<"running", "error">>}

\* C7: a poller that ends before its timeout, with the worker still there,
\* has delivered one outcome: the result to the step's callback or the error
\* message to the error handler.
C7_WaitDeliversOneOutcome ==
    \A p \in DOMAIN pollers :
        (pollers[p].pc = "done" /\ pollers[p].end \notin {"timeout", "exited"})
            => pollers[p].end \in {"result", "error"}
\* C14: a step asked for while the worker is not running (no process handle,
\* or a handle whose process has exited) is not attempted: a request is issued
\* only with the worker process alive.
C14_NoStepWithoutWorker ==
    [][nreq' # nreq => workflow_process = "alive"]_vars

\* C15: a wait that ends by timeout reports one failure to the operator and
\* deletes nothing: the request, status and result slots are as the step found
\* them, and a poller that timed out never touches a slot again, so what the
\* worker writes afterwards stays.
C15_TimeoutDeletesNothing ==
    [][\A p \in DOMAIN pollers :
          /\ (pollers[p].pc # "done" /\ pollers'[p].pc = "done" /\ pollers'[p].end = "timeout")
                => /\ chan' = chan
                   /\ after_queue' = Append(after_queue,
                                            Callback("error", pollers[p].cb, NoResult, p))
          /\ (pollers[p].pc = "done" /\ pollers[p].end = "timeout")
                => pollers'[p] = pollers[p]
      ]_vars

\* C15, its case: a poller has timed out and the worker's terminal status and
\* result, written afterwards for that request, are in their slots
C15_LateResultKept ==
    \E p \in DOMAIN pollers :
        /\ pollers[p].pc = "done"
        /\ pollers[p].end = "timeout"
        /\ IsSome(status_file)
        /\ Get(status_file).id = p
        /\ Get(status_file).val \in {"complete", "error"}
        /\ IsSome(result_file)
        /\ Get(result_file).id = p

\* C16: a request submitted while the request slot still holds an earlier
\* request fails silently: the slot keeps the earlier request unchanged.
C16_SubmitKeepsEarlierRequest ==
    [][(IsSome(request_file) /\ nreq' = nreq + 1) => request_file' = request_file]_vars

\* C17: when the controller's wait finds a result payload that fails structural
\* parsing, the step that detects it leaves the result and status files deleted
\* and reports one failure to the operator.
C17_MalformedResultCleared ==
    [][\A p \in DOMAIN pollers :
          (pollers[p].pc # "done" /\ pollers'[p].pc = "done" /\ pollers'[p].end = "malformed")
              => /\ result_file' = None
                 /\ status_file' = None
                 /\ Len(after_queue') = Len(after_queue) + 1
                 /\ after_queue'[Len(after_queue')].kind = "error"
      ]_vars

\* C29: when the handle of an exited worker process is dropped by the
\* controller itself (not by the operator's Stop), no request is being issued
\* or waited for: the exit stays visible to the wait of every request.
C29_WorkerExitSurfaced ==
    [][(workflow_process = "exited" /\ workflow_process' = "None" /\ ~StopWorkflow)
          => /\ ui'.pc # "write"
             /\ \A p \in DOMAIN pollers' : pollers'[p].pc = "done"]_vars


\* C37: no request is lost in the slot: when the worker deletes the request
\* file after it has read and parsed a request, what it deletes is the request
\* it has read, which it goes on to dispatch, and no request written since.
C37_DeletesOnlyTheRequestRead ==
    [][(WorkerClearRequest /\ IsSome(request_file))
          => Get(request_file) = worker.req]_vars

(***************************************************************************)
(* Properties of the supervised computer-server (SpecServer).              *)
(***************************************************************************)
Queued(widget, text) ==
    /\ Len(tk_queue') = Len(tk_queue) + 1
    /\ tk_queue'[Len(tk_queue')].widget = widget
    /\ tk_queue'[Len(tk_queue')].text = text
Stepped(m) == m \in Pids /\ monitors'[m] # monitors[m]

\* C24: Running is handed to the server label only by the re-check that
\* follows a health success, with the handle present and its process alive;
\* a re-check that finds the process exited hands over Failed, and the
\* thread's next step clears the handle.
C24_RunningOnlyAfterRecheck ==
    [][/\ Queued("server", "Running") =>
            \E m \in Pids : /\ MonitorAt(m, "server", "recheck") /\ Stepped(m)
                             /\ Alive(server_process)
                             /\ monitors'[m].ready
       /\ \A m \in Pids :
            /\ (MonitorAt(m, "server", "recheck") /\ Stepped(m) /\ server_process # 0
                    /\ ~Alive(server_process))
                  => Queued("server", "Failed") /\ monitors'[m].pc = "died"
            /\ (MonitorAt(m, "server", "died") /\ Stepped(m))
                  => server_process' = 0 /\ ~monitors'[m].ready
                     /\ monitors'[m].shown = <<"Failed">>]_vars

\* C24 witness: another server answers on port 8000, the panel's own process
\* is gone, and its monitor ended after the re-check with Failed shown.
C24_ForeignServerFailed ==
    \E m \in Pids : /\ monitors[m].end = "died" /\ other_server /\ ~procs[m].alive
                     /\ server_process = 0 /\ server_status = "Failed"

\* C25: a start of the server ends in one outcome: an exit seen before any
\* health success hands over Failed and the handle is cleared next; the
\* window over with neither exit nor health success hands over Unknown and
\* keeps the handle; with port 8000 in use nothing is spawned and the handle
\* stays absent.
C25_StartOutcomes ==
    /\ [](\A m \in Pids : monitors[m].kind = "server" =>
            /\ Len(monitors[m].shown) <= 1
            /\ monitors[m].end \in {"exited", "died"} => monitors[m].shown = <<"Failed">>
            /\ monitors[m].end = "timeout" => monitors[m].shown = <<"Unknown">>
            /\ monitors[m].end = "ready" => monitors[m].shown = <<"Running">>)
    /\ [][/\ \A m \in Pids :
               /\ (MonitorAt(m, "server", "poll") /\ Stepped(m) /\ server_process # 0
                       /\ ~Alive(server_process))
                     => Queued("server", "Failed") /\ monitors'[m].pc = "clear"
               /\ (MonitorAt(m, "server", "clear") /\ Stepped(m)) => server_process' = 0
               /\ (MonitorAt(m, "server", "after") /\ Stepped(m) /\ ~monitors[m].ready
                       /\ server_process # 0)
                     => /\ Queued("server", "Unknown")
                        /\ server_process' = server_process
                        /\ monitors'[m].end = "timeout"
          /\ (PortServed /\ server_process = 0)
                => /\ server_process' = 0
                   /\ \A p \in 1..Len(procs') : procs'[p].kind = "server" => p \in Pids]_vars

\* C25 witness: a first server exited during its window and was marked
\* Failed; a second one neither exited nor answered, is marked Unknown and
\* keeps its handle.
C25_FailedThenUnknown ==
    \E m1, m2 \in Pids :
        /\ monitors[m1].end = "exited" /\ monitors[m1].shown = <<"Failed">>
        /\ monitors[m2].end = "timeout" /\ server_process = m2 /\ Alive(m2)
        /\ ~procs[m2].listening /\ server_status = "Unknown"

\* C26: Running is handed to the worker label only when a marker line was
\* read from the stdout of the process the handle names at that moment; an
\* exit seen by the monitor hands over Stopped and the handle is cleared next.
C26_RunningOnlyOnOwnMarker ==
    [][/\ Queued("workflow", "Running") =>
            \E m \in Pids : /\ MonitorAt(m, "workflow", "readline") /\ Stepped(m)
                             /\ monitors[m].pipe = workflow_pid
                             /\ Head(procs[workflow_pid].out) = "marker"
       /\ \A m \in Pids :
            /\ (MonitorAt(m, "workflow", "poll") /\ Stepped(m) /\ workflow_pid # 0
                    /\ ~Alive(workflow_pid))
                  => Queued("workflow", "Stopped") /\ monitors'[m].pc = "clear"
            /\ (MonitorAt(m, "workflow", "clear") /\ Stepped(m)) => workflow_pid' = 0]_vars

\* C27: the step that ends a stop of the server or of the worker leaves the
\* handle cleared and the label at Stopped.
C27_StopEndsStopped ==
    [][/\ (ui.pc \in {"stop_server", "stop_server_clear"} /\ ui'.pc = "idle")
            => server_process' = 0 /\ server_status' = "Stopped"
       /\ (ui.pc \in {"stop_workflow", "stop_workflow_clear"} /\ ui'.pc = "idle")
            => workflow_pid' = 0 /\ workflow_status' = "Stopped"]_vars

\* the monitor thread sits in readline() on the pipe of a live process that
\* has printed nothing more: only a line or the exit of the process lets it
\* go on
BlockedInReadline(m) ==
    /\ MonitorAt(m, "workflow", "readline")
    /\ procs[monitors[m].pipe].alive
    /\ procs[monitors[m].pipe].out = <<>>

\* C28: a monitor thread that waits for health or for the readiness marker
\* has made MaxWaitIter iterations at most and can always go on by itself,
\* without a line from the process and without its exit.
C28_WaitsAreBounded ==
    \A m \in Pids :
        (monitors[m].pc # "done" /\ ~monitors[m].ready)
            => monitors[m].iter <= MaxWaitIter /\ ~BlockedInReadline(m)


\* C40: a crash of the server after readiness is noticed: while the label
\* says Running and the handle names a process that exited on its own after
\* its monitor saw it ready and Running was shown, that monitor has yet to
\* finish, or an update of the server label is queued, or a Stop is under way.
\* No other server holds the port.
C40_CrashAfterReadyNoticed ==
    (/\ server_process # 0
     /\ ~other_server
     /\ procs[server_process].exit_running
     /\ server_status = "Running"
     /\ monitors[server_process].ready)
        => \/ monitors[server_process].pc # "done"
           \/ \E i \in 1..Len(tk_queue) : tk_queue[i].widget = "server"
           \/ ui.pc # "idle"


\* C38: label and handle agree under every interleaving: with the handle of
\* the server (of the worker) absent its label does not say Running, and
\* a monitor thread hands over a label update only while the handle names no
\* process started after its own.
C38_StatusMatchesHandle ==
    /\ [](/\ server_process = 0 => server_status # "Running"
          /\ workflow_pid = 0 => workflow_status # "Running")
    /\ [][\A m \in Pids :
            (Stepped(m) /\ Len(tk_queue') = Len(tk_queue) + 1)
                => IF monitors[m].kind = "server" THEN server_process <= m
                                                  ELSE workflow_pid <= m]_vars

(***************************************************************************)
(* Properties of the cursor (SpecCursor).                                  *)
(***************************************************************************)
\* C30: the cursor moves by one with an advance, or to 0 with Filter, the
\* manual group load or Reset, and in no other step; Classify, Read, their
\* results, Extract and Build Plan leave the cursor and unread_groups as they
\* are, and Extract and Build Plan leave the step logs of Read as they are.
C30_CursorFrame ==
    [][/\ state'.current_thread_index # state.current_thread_index
            => \/ /\ state'.current_thread_index = state.current_thread_index + 1
                  /\ nadv' = nadv + 1
               \/ /\ state'.current_thread_index = 0
                  /\ RunFilter \/ LoadGroups \/ ResetState
       /\ (RunClassify \/ OnClassifyResult \/ RunReadMessages \/ OnReadResult \/ RunExtract
               \/ RunBuildPlan)
            => /\ state'.current_thread_index = state.current_thread_index
               /\ state'.unread_groups = state.unread_groups
       /\ (RunExtract \/ RunBuildPlan) => state'.step_logs = state.step_logs]_vars

\* C30 witness: after an advance to the second group, Read, its result,
\* Extract and Build Plan have run and the cursor is still on that group.
C30_SecondGroupPlanned ==
    /\ state.current_thread_index = 1
    /\ Len(state.unread_groups) = 2
    /\ LogHas(state.step_logs, ReadKey(state.unread_groups[2].thread_id))
    /\ state.current_group_suspects # <<>>
    /\ state.current_group_plan = Some(build_removal_plan(state.current_group_suspects))
    /\ nadv = 1

\* the keys of step_logs whose entry the step wrote
Written == {k \in DOMAIN state'.step_logs :
               k \notin DOMAIN state.step_logs \/ state'.step_logs[k] # state.step_logs[k]}

\* C31: a result callback stores its result under the log keys of the group
\* that was at the cursor when its request was issued, and under no other
\* group's keys.
C31_ResultUnderRequestKeys ==
    [][/\ OnReadResult =>
            LET tid == pollers[Head(after_queue).pid].thread
            IN Written \subseteq {ReadKey(tid), ShotsKey(tid)}
       /\ OnRemovalResult =>
            LET tid == pollers[Head(after_queue).pid].thread
            IN Written \subseteq {RemovalKey(tid)}]_vars


\* C36: the per-group state belongs to the group at the cursor: every suspect
\* of current_group_suspects and of current_group_plan carries the thread_id of
\* unread_groups[current_thread_index].
C36_GroupStateAtCursor ==
    LET AtCursor(suspects) ==
            \A i \in 1..Len(suspects) :
                /\ CursorInRange(state)
                /\ suspects[i].thread_id = CurrentThread(state).thread_id
    IN  /\ AtCursor(state.current_group_suspects)
        /\ IsSome(state.current_group_plan)
              => AtCursor(Get(state.current_group_plan).suspects)

====
